---- MODULE Spec2Model ----
(***************************************************************************)
(* Approval gate of the deepagents coding agent.                           *)
(*                                                                         *)
(* The agent loop is  model -> post-model hook -> tools.  Two hooks gate   *)
(* the tool calls of the last AI message:                                  *)
(*   - post_model_hook  (examples/code/post_model_hook.py), which keeps a  *)
(*     cache of approved "command:directory" keys, and                     *)
(*   - interrupt_hook   (src/deepagents/interrupt.py), configured by a     *)
(*     set of tool names.                                                  *)
(* A hook suspends with interrupt(); on resume the hook is executed again  *)
(* from its first line on the checkpointed state, and the k-th interrupt   *)
(* call of that execution returns the k-th resume value given so far.      *)
(*                                                                         *)
(* A path string is modelled as the sequence of its tokens: a leading "/"  *)
(* token for an absolute path, then its components.  The empty sequence    *)
(* is the empty string, and also an absent argument (both are falsy).      *)
(***************************************************************************)
EXTENDS Integers, Sequences, FiniteSets, TLC

VARIABLES world, hookKind, pc, step, tool_calls, approved_operations, answered,
          resumes, prompt, live, executed,
          proposed, cache0, prompts, gate, accepted, granted,
          setup, agents, phase, files, todos, messages,
          stepCalls, callStatus, injected, begin, child, childSteps,
          backend, store, inserted, last, ops

\* The variables of the file store scenarios: the backend, its files, the
\* order in which the keys of the virtual store were inserted, the last
\* operation with its result, and the number of operations so far.
svars == <<backend, store, inserted, last, ops>>

\* The variables of the delegation engine: the registry, the parent
\* session's files, todos and messages, and the tool calls of its step.
\* They are left alone by the approval gate, together with the variables of
\* the file store scenarios.
dvars == <<setup, agents, phase, files, todos, messages,
           stepCalls, callStatus, injected, begin, child, childSteps, svars>>

\* The variables of the approval gate, but for the cache itself.
\* They are left alone by the delegation engine, together with the
\* variables of the file store scenarios.
gvars == <<world, hookKind, pc, step, tool_calls, answered,
           resumes, prompt, live, executed,
           proposed, cache0, prompts, gate, accepted, granted, svars>>

\* The variables the file store scenarios leave alone.
ovars == <<world, hookKind, pc, step, tool_calls, approved_operations, answered,
           resumes, prompt, live, executed,
           proposed, cache0, prompts, gate, accepted, granted,
           setup, agents, phase, files, todos, messages,
           stepCalls, callStatus, injected, begin, child, childSteps>>

vars == <<world, hookKind, pc, step, tool_calls, approved_operations, answered,
          resumes, prompt, live, executed,
          proposed, cache0, prompts, gate, accepted, granted, dvars>>

\* Longest batch of tool calls the model proposes in one step.
MaxBatch == 2
\* Number of model steps in a run.
MaxSteps == 2

----------------------------------------------------------------------------
(* Paths: os.getcwd, os.path.normpath, os.path.abspath, os.path.dirname.    *)

\* os.getcwd(): the process working directory, /w.
getcwd == <<"/", "w">>

isabs(p) == Len(p) > 0 /\ p[1] = "/"

\* The components of a path, without the root token.
Components(p) == IF isabs(p) THEN Tail(p) ELSE p

Front(s) == SubSeq(s, 1, Len(s) - 1)

\* The component loop of posixpath.normpath: "." is skipped, ".." removes
\* the component before it, is dropped at the root, and is kept at the
\* front of a relative path.
RECURSIVE NormComps(_, _, _)
NormComps(comps, abs, acc) ==
    IF comps = <<>> THEN acc
    ELSE LET c == Head(comps)
             r == Tail(comps)
         IN  IF c = "." THEN NormComps(r, abs, acc)
             ELSE IF c # ".." THEN NormComps(r, abs, Append(acc, c))
             ELSE IF (~abs /\ acc = <<>>) \/ (acc # <<>> /\ acc[Len(acc)] = "..")
                  THEN NormComps(r, abs, Append(acc, c))
             ELSE IF acc # <<>> THEN NormComps(r, abs, Front(acc))
             ELSE NormComps(r, abs, acc)

\* posixpath.normpath: the empty path and a relative path that normalises
\* to nothing are ".".
normpath(p) ==
    LET comps == NormComps(Components(p), isabs(p), <<>>)
    IN  IF isabs(p) THEN <<"/">> \o comps
        ELSE IF comps = <<>> THEN <<".">> ELSE comps

\* posixpath.abspath: a relative path is joined to the working directory.
abspath(p) == IF isabs(p) THEN normpath(p) ELSE normpath(getcwd \o p)

\* posixpath.dirname: everything before the last separator.
dirname(p) ==
    IF isabs(p) THEN (IF Len(p) = 1 THEN p ELSE Front(p))
    ELSE IF Len(p) <= 1 THEN <<>> ELSE Front(p)

----------------------------------------------------------------------------
(* Tool calls and approval keys.                                            *)

\* The argument record of a tool call; an argument that is not given is <<>>.
Args(fp, p, c) == [file_path |-> fp, path |-> p, cwd |-> c]
NoArgs == Args(<<>>, <<>>, <<>>)

\* Python's "a or b" on strings.
Or(a, b) == IF a # <<>> THEN a ELSE b

get_approval_key_nokind(command, args) ==
    LET file_path  == Or(args.file_path, args.path)
        target_dir ==
            IF command \in {"write_file", "str_replace_based_edit_tool", "edit_file"}
            THEN (IF file_path # <<>> THEN dirname(abspath(file_path)) ELSE <<>>)
            ELSE IF command = "execute_bash" THEN Or(args.cwd, getcwd)
            ELSE IF command \in {"ls", "glob", "grep"}
                 THEN Or(args.path, getcwd)
            ELSE <<>>
    IN  <<"op", ":">> \o normpath(Or(target_dir, getcwd))

\* get_approval_key: "command:normalized_directory".  The args of the
\* model carry no "directory" entry, so args.get("directory") is None.
get_approval_key(command, args) ==
    LET file_path  == Or(args.file_path, args.path)
        target_dir ==
            IF command \in {"write_file", "str_replace_based_edit_tool", "edit_file"}
            THEN (IF file_path # <<>> THEN dirname(abspath(file_path)) ELSE <<>>)
            ELSE IF command = "execute_bash" THEN Or(args.cwd, getcwd)
            ELSE IF command \in {"ls", "glob", "grep"}
                 THEN Or(args.path, getcwd)
            ELSE <<>>
    IN  <<command, ":">> \o normpath(Or(target_dir, getcwd))

\* approval_key.split(':', 1)[1], the directory shown in the question.
KeyDirectory(key) == SubSeq(key, 3, Len(key))

is_operation_approved(cached_approvals, command, args) ==
    get_approval_key(command, args) \in cached_approvals

add_approved_operation_replace(cached_approvals, command, args) ==
    {get_approval_key(command, args)}

add_approved_operation_noop(cached_approvals, command, args) ==
    cached_approvals

add_approved_operation(cached_approvals, command, args) ==
    cached_approvals \cup {get_approval_key(command, args)}

write_tools_with_read == {"write_file", "execute_bash", "str_replace_based_edit_tool",
                          "ls", "edit_file", "glob", "grep", "read_file"}

\* The tools post_model_hook asks approval for.
write_tools == {"write_file", "execute_bash", "str_replace_based_edit_tool",
                "ls", "edit_file", "glob", "grep"}

\* tool_configs of create_interrupt_hook: the tools the configured hook gates.
tool_configs == {"write_file", "edit_file"}

----------------------------------------------------------------------------
(* Resume values: what the caller passes to Command(resume=...).            *)

NoRequest == [action |-> "", args |-> NoArgs]

\* A HumanResponse record {type, args}.
Response(t, a) == [type |-> t, args |-> a]

\* The replacement action an edit response carries.
EditedRequest == [action |-> "write_file",
                  args   |-> Args(<<"/", "w", "b", "e">>, <<>>, <<>>)]

Bool(b)      == [form |-> "bool",   ok |-> b,     items |-> <<>>]
Rec(t, a)    == [form |-> "record", ok |-> FALSE, items |-> <<Response(t, a)>>]
List(items)  == [form |-> "list",   ok |-> FALSE, items |-> items]

\* Python truth value of a resume value: a bool is itself, a record (a dict
\* with a "type" entry) is true, a list is true iff it is not empty.
Truthy(v) ==
    CASE v.form = "bool"   -> v.ok
      [] v.form = "record" -> TRUE
      [] v.form = "list"   -> v.items # <<>>


\* The value of the resume means "accept": True, or a response of type accept.
IsAccept(v) ==
    \/ v.form = "bool" /\ v.ok
    \/ v.form \in {"record", "list"} /\ Len(v.items) = 1 /\ v.items[1].type = "accept"

\* The value of the resume means "reject": False, or a response of type reject.
IsReject(v) ==
    \/ v.form = "bool" /\ ~v.ok
    \/ v.form \in {"record", "list"} /\ Len(v.items) = 1 /\ v.items[1].type = "reject"

\* The resume values a caller gives to each hook.
ResumeValues(kind) ==
    IF kind = "cache"
    THEN {Bool(TRUE), Bool(FALSE), Rec("reject", NoRequest), Rec("edit", EditedRequest)}
    ELSE {List(<<Response("accept", NoRequest)>>),
          List(<<Response("edit", EditedRequest)>>),
          List(<<Response("response", NoRequest)>>),
          List(<<Response("reject", NoRequest)>>),
          List(<<>>),
          Bool(TRUE)}

----------------------------------------------------------------------------
(* The hooks.  A hook execution is a function of the checkpointed state and *)
(* of the resume values given so far; it ends by returning, by raising the  *)
(* next interrupt, or by raising an error.                                  *)

NoPrompt == [command |-> "", args |-> NoArgs, approval_key |-> <<>>]

\* One entry of the gate's trace per tool call the hook has looked at.
Entry(tc, key, ev, j) == [id |-> tc.id, name |-> tc.name, key |-> key, event |-> ev, j |-> j]

Result(status, calls, cache, ans, pr, trace) ==
    [status |-> status, tool_calls |-> calls, cache |-> cache, answered |-> ans,
     prompt |-> pr, trace |-> trace]

MessagesAtInterrupt_filtered(calls, approved) == approved

\* state["messages"] while post_model_hook is inside interrupt(): the hook
\* assigns it only after its loop.
MessagesAtInterrupt(calls, approved) == calls

\* The last message post_model_hook returns: rebuilt from the approved calls
\* when some call was filtered out.
RevisedMessages(calls, approved) ==
    IF Len(approved) # Len(calls) THEN approved ELSE calls

\* An interrupt that hands out the newest resume value, whichever
\* interrupt call of the execution asks.
interrupt_last(rs, j) == rs[Len(rs)]

\* interrupt(value) in an execution that is resumed: the j-th interrupt call
\* of the execution returns the j-th resume value.
interrupt(rs, j) == rs[j]

\* post_model_hook from tool call i on: approved is approved_tool_calls,
\* cache is approved_operations["cached_approvals"], j counts the interrupt
\* calls made so far in this execution.
RECURSIVE post_model_hook_loop(_, _, _, _, _, _, _)
post_model_hook_loop(calls, i, approved, cache, rs, j, trace) ==
    IF i > Len(calls)
    THEN Result("return", RevisedMessages(calls, approved), cache, {}, NoPrompt, trace)
    ELSE LET tool_call == calls[i]
             tool_name == tool_call.name
             tool_args == tool_call.args
             key       == get_approval_key(tool_name, tool_args)
         IN  IF tool_name \in write_tools
             THEN IF is_operation_approved(cache, tool_name, tool_args)
                  THEN post_model_hook_loop(calls, i + 1, Append(approved, tool_call),
                           cache, rs, j, Append(trace, Entry(tool_call, key, "hit", 0)))
                  ELSE IF j + 1 > Len(rs)
                  THEN Result("interrupt", MessagesAtInterrupt(calls, approved), cache, {},
                              [command |-> tool_name, args |-> tool_args,
                               approval_key |-> key],
                              Append(trace, Entry(tool_call, key, "ask", 0)))
                  ELSE IF Truthy(interrupt(rs, j + 1))
                  THEN post_model_hook_loop(calls, i + 1, Append(approved, tool_call),
                           add_approved_operation(cache, tool_name, tool_args), rs, j + 1,
                           Append(trace, Entry(tool_call, key, "accept", j + 1)))
                  ELSE post_model_hook_loop(calls, i + 1, approved, cache, rs, j + 1,
                           Append(trace, Entry(tool_call, key, "reject", j + 1)))
             ELSE post_model_hook_loop(calls, i + 1, Append(approved, tool_call),
                      cache, rs, j, Append(trace, Entry(tool_call, <<>>, "pass", 0)))

\* post_model_hook(state): returns the state unchanged when the last message
\* has no tool calls.
post_model_hook(calls, cache, rs) ==
    IF calls = <<>>
    THEN Result("return", calls, cache, {}, NoPrompt, <<>>)
    ELSE post_model_hook_loop(calls, 1, <<>>, cache, rs, 0, <<>>)


\* approved_tool_calls of interrupt_hook once the gated call is decided: a
\* copy of the auto-approved calls, then the decided call.
ApprovedWithDecided(calls, auto, decided) == Append(auto, decided)

\* A hook that takes any number of tool calls that need an interrupt.
multiple_interrupts_allowed(interrupt_tool_calls) == FALSE

\* len(interrupt_tool_calls) > 1: the hook raises a ValueError.
multiple_interrupts(interrupt_tool_calls) == Len(interrupt_tool_calls) > 1

\* interrupt_hook(state).  It makes at most one interrupt call, so only the
\* first resume value is read.
interrupt_hook(calls, cache, rs) ==
    LET interrupt_tool_calls     == SelectSeq(calls, LAMBDA c : c.name \in tool_configs)
        auto_approved_tool_calls == SelectSeq(calls, LAMBDA c : c.name \notin tool_configs)
        passes == [i \in 1..Len(calls) |->
                      Entry(calls[i], <<>>,
                            IF calls[i].name \in tool_configs THEN "gated" ELSE "pass", 0)]
    IN  IF calls = <<>> \/ interrupt_tool_calls = <<>>
        THEN Result("return", calls, cache, {}, NoPrompt, passes)
        ELSE IF multiple_interrupts(interrupt_tool_calls)
        THEN Result("error", calls, cache, {}, NoPrompt, passes)
        ELSE LET tool_call == interrupt_tool_calls[1]
                 request   == [command |-> tool_call.name, args |-> tool_call.args,
                               approval_key |-> <<>>]
             IN  IF rs = <<>>
                 THEN Result("interrupt", calls, cache, {}, request,
                             <<Entry(tool_call, <<>>, "ask", 0)>>)
                 ELSE LET responses == rs[1]
                      IN  IF responses.form # "list" \/ Len(responses.items) # 1
                          THEN Result("error", calls, cache, {}, NoPrompt, passes)
                          ELSE LET response == responses.items[1]
                               IN  CASE response.type = "accept" ->
                                          Result("return",
                                                 ApprovedWithDecided(calls,
                                                     auto_approved_tool_calls, tool_call),
                                                 cache, {}, NoPrompt,
                                                 <<Entry(tool_call, <<>>, "accept", 1)>>)
                                     [] response.type = "edit" ->
                                          Result("return",
                                                 ApprovedWithDecided(calls,
                                                     auto_approved_tool_calls,
                                                     [name |-> response.args.action,
                                                      args |-> response.args.args,
                                                      id   |-> tool_call.id]),
                                                 cache, {}, NoPrompt,
                                                 <<Entry(tool_call, <<>>, "edit", 1)>>)
                                     [] response.type = "response" ->
                                          Result("return", calls, cache, {tool_call.id},
                                                 NoPrompt,
                                                 <<Entry(tool_call, <<>>, "response", 1)>>)
                                     [] OTHER ->
                                          Result("error", calls, cache, {}, NoPrompt, passes)

\* The post-model hook the agent was built with (_agent_builder).
Hook(kind, calls, cache, rs) ==
    IF kind = "cache" THEN post_model_hook(calls, cache, rs)
    ELSE interrupt_hook(calls, cache, rs)

----------------------------------------------------------------------------
(* The tool calls the model can propose.                                    *)

Call(name, args) == [name |-> name, args |-> args]

\* The calls of the gate scenario: two writes into one directory, an edit in
\* the same directory, a listing and a read.
Catalogue ==
    { Call("write_file",   Args(<<"/", "w", "a", "f">>, <<>>, <<>>)),
      Call("write_file",   Args(<<"a", "g">>, <<>>, <<>>)),
      Call("edit_file",    Args(<<"/", "w", "a", "f">>, <<>>, <<>>)),
      Call("ls",           Args(<<>>, <<"/", "w", "a">>, <<>>)),
      Call("read_file",    Args(<<"/", "w", "a", "f">>, <<>>, <<>>)) }

\* The calls of the key scenario: every gated kind, on paths that are
\* absolute, relative, and spelled with "." and "..".
KeyCatalogue ==
    { Call("write_file",   Args(<<"/", "w", "a", "f">>, <<>>, <<>>)),
      Call("write_file",   Args(<<"a", "g">>, <<>>, <<>>)),
      Call("write_file",   Args(<<"/", "w", "a", "..", "b", "f">>, <<>>, <<>>)),
      Call("write_file",   Args(<<"/", "w", "b", "f">>, <<>>, <<>>)),
      Call("write_file",   Args(<<".", "f">>, <<>>, <<>>)),
      Call("write_file",   Args(<<"..", "w", "a", "h">>, <<>>, <<>>)),
      Call("write_file",   Args(<<"/", "w", "a">>, <<>>, <<>>)),
      Call("write_file",   NoArgs),
      Call("edit_file",    Args(<<"/", "w", "a", "f">>, <<>>, <<>>)),
      Call("str_replace_based_edit_tool", Args(<<>>, <<"/", "w", "a", "f">>, <<>>)),
      Call("execute_bash", Args(<<>>, <<>>, <<"/", "w", "a">>)),
      Call("execute_bash", Args(<<>>, <<>>, <<"/", "w", "a", ".">>)),
      Call("execute_bash", NoArgs),
      Call("ls",           Args(<<>>, <<"/", "w", "a">>, <<>>)),
      Call("ls",           Args(<<>>, <<"/", "w">>, <<>>)),
      Call("ls",           NoArgs),
      Call("glob",         Args(<<>>, <<"/", "w", "b", "..", "a">>, <<>>)),
      Call("grep",         Args(<<>>, <<"/", "w", "a">>, <<>>)) }

\* The batches of at most n calls of the catalogue cat, the i-th call of a
\* batch with call id i.
Batches(cat, n) ==
    UNION { { [i \in 1..m |-> [name |-> b[i].name, args |-> b[i].args, id |-> i]] :
                b \in [1..m -> cat] } : m \in 0..n }

----------------------------------------------------------------------------
(* Session state: messages, todos, files and the approval cache.  A file    *)
(* content is the sequence of its characters, the virtual store a function  *)
(* from the paths it holds to their contents.  A key a state does not hold  *)
(* reads as its default (state.get(key, default)).                          *)

\* The store with no file.
EmptyFiles == [p \in {} |-> <<>>]

State(fs, ts, ms, cache) ==
    [files |-> fs, todos |-> ts, messages |-> ms, approved_operations |-> cache]

\* The keys of the state schema the agent is built with, and the keys of
\* the default schema of an agent built without one.
StateSchema == {"messages", "todos", "files", "approved_operations"}
DefaultSchema == {"messages"}

Message(role, content, id, tcs) ==
    [role |-> role, content |-> content, tool_call_id |-> id, tool_calls |-> tcs]
UserMessage(content)     == Message("user", content, 0, <<>>)
ToolMessage(content, id) == Message("tool", content, id, <<>>)
AIMessage(content, tcs)  ==
    Message("ai", content, 0, [k \in 1..Len(tcs) |-> [name |-> tcs[k].name, id |-> tcs[k].id]])

Todo(content, st) == [content |-> content, status |-> st]

\* A Command(update=...): the keys it carries and their values.
Update(keys, fs, ts, ms, cache) ==
    [keys |-> keys, files |-> fs, todos |-> ts, messages |-> ms,
     approved_operations |-> cache]

\* What a tool call leaves behind: the state map it was handed, as it is
\* after the call, and the update it returns.
ToolResult(st, u) == [state |-> st, update |-> u]

\* A tool that returns a string: the tool node wraps it in a ToolMessage.
Text(st, content, id) ==
    ToolResult(st, Update({"messages"}, EmptyFiles, <<>>, <<ToolMessage(content, id)>>, {}))

\* The reducer of the files key: per path, the update wins.
file_reducer(l, r) ==
    [p \in DOMAIN l \cup DOMAIN r |-> IF p \in DOMAIN r THEN r[p] ELSE l[p]]

\* An update applied to a session whose schema is the given set of keys:
\* keys outside the schema are dropped, files go through their reducer,
\* messages are appended, every other key is replaced.
ApplyUpdate(st, u, schema) ==
    LET has(k) == k \in u.keys \cap schema
    IN  State(IF has("files") THEN file_reducer(st.files, u.files) ELSE st.files,
              IF has("todos") THEN u.todos ELSE st.todos,
              st.messages \o u.messages,
              IF has("approved_operations") THEN u.approved_operations
              ELSE st.approved_operations)

\* What a session built with schema keeps of the input it is invoked with.
Project(st, schema) ==
    State(IF "files" \in schema THEN st.files ELSE EmptyFiles,
          IF "todos" \in schema THEN st.todos ELSE <<>>,
          st.messages,
          IF "approved_operations" \in schema THEN st.approved_operations ELSE {})

----------------------------------------------------------------------------
(* The built-in tools of the virtual store (tools.py).                      *)

StartsWith(s, t) == Len(t) <= Len(s) /\ SubSeq(s, 1, Len(t)) = t

\* A count of every position at which old matches.
count_positions(s, old) ==
    Cardinality({ k \in 1..(Len(s) - Len(old) + 1) : SubSeq(s, k, k + Len(old) - 1) = old })

\* str.count(old): the non-overlapping occurrences of old.
RECURSIVE count(_, _)
count(s, old) ==
    IF old = <<>> THEN Len(s) + 1
    ELSE IF Len(s) < Len(old) THEN 0
    ELSE IF StartsWith(s, old) THEN 1 + count(SubSeq(s, Len(old) + 1, Len(s)), old)
    ELSE count(Tail(s), old)

\* str.replace(old, new, n): the first n occurrences, all of them for n < 0.
RECURSIVE replace(_, _, _, _)
replace(s, old, new, n) ==
    IF n = 0 THEN s
    ELSE IF old = <<>>
    THEN IF s = <<>> THEN new
         ELSE new \o <<Head(s)>> \o replace(Tail(s), old, new, n - 1)
    ELSE IF Len(s) < Len(old) THEN s
    ELSE IF StartsWith(s, old)
    THEN new \o replace(SubSeq(s, Len(old) + 1, Len(s)), old, new, n - 1)
    ELSE <<Head(s)>> \o replace(Tail(s), old, new, n)

write_todos(st, ts, id) ==
    ToolResult(st, Update({"todos", "messages"}, EmptyFiles, ts,
                          <<ToolMessage(<<"Updated todo list">>, id)>>, {}))

\* The pieces of s between the occurrences of the character sep
\* (str.split(sep)): one piece more than there are occurrences.
RECURSIVE split(_, _)
split(s, sep) ==
    IF \A k \in 1..Len(s) : s[k] # sep THEN <<s>>
    ELSE LET k == CHOOSE n \in 1..Len(s) : s[n] = sep /\ \A m \in 1..(n - 1) : s[m] # sep
         IN  <<SubSeq(s, 1, k - 1)>> \o split(SubSeq(s, k + 1, Len(s)), sep)

\* sep.join(parts).
RECURSIVE join(_, _)
join(parts, sep) ==
    IF parts = <<>> THEN <<>>
    ELSE IF Len(parts) = 1 THEN parts[1]
    ELSE parts[1] \o <<sep>> \o join(Tail(parts), sep)

\* str.splitlines(): the lines of a text, without their terminators; a
\* terminator at the very end of the text opens no further line.
splitlines(content) ==
    LET pieces == split(content, "\n")
    IN  IF pieces[Len(pieces)] = <<>> THEN SubSeq(pieces, 1, Len(pieces) - 1) ELSE pieces

\* str.strip() == "": the text has white space only.
Whitespace == {" ", "\n", "\t"}
IsBlank(content) == \A k \in 1..Len(content) : content[k] \in Whitespace

\* The default of read_file's limit argument and the length over which it
\* truncates a line: both are 2000 in the source and are scaled down here.
DefaultLimit == 2
MaxLineLength == 2

\* f"{line_number:6d}".
LineNumber(n) ==
    CASE n = 1 -> "     1" [] n = 2 -> "     2" [] n = 3 -> "     3"
      [] n = 4 -> "     4" [] OTHER -> "     n"

\* str(n).
Numeral(n) ==
    CASE n = 0 -> "0" [] n = 1 -> "1" [] n = 2 -> "2" [] n = 3 -> "3" [] n = 4 -> "4"
      [] n = 5 -> "5" [] n = 6 -> "6" [] OTHER -> "n"

Min(a, b) == IF a < b THEN a ELSE b

\* What read_file makes of the content of a file that exists: the sentinel
\* of an empty file, the offset error, or the numbered lines.
format_lines(content, offset, limit) ==
    LET lines == splitlines(content)
        end_idx == Min(offset + limit, Len(lines))
    IN  IF IsBlank(content)
        THEN <<"System reminder: File exists but has empty contents">>
        ELSE IF offset >= Len(lines)
        THEN <<"Error: Line offset exceeds file length">>
        ELSE join([i \in 1..(end_idx - offset) |->
                      <<LineNumber(offset + i), "\t">>
                      \o SubSeq(lines[offset + i], 1,
                                Min(Len(lines[offset + i]), MaxLineLength))], "\n")

read_file(st, file_path, offset, limit, id) ==
    IF file_path \notin DOMAIN st.files
    THEN Text(st, <<"Error: File not found", file_path>>, id)
    ELSE Text(st, format_lines(st.files[file_path], offset, limit), id)

\* write_file assigns into the files map of the state it was handed and
\* returns that map as the update.
write_file(st, file_path, content, id) ==
    LET fs == [p \in DOMAIN st.files \cup {file_path} |->
                   IF p = file_path THEN content ELSE st.files[p]]
    IN  ToolResult([st EXCEPT !.files = fs],
            Update({"files", "messages"}, fs, <<>>,
                   <<ToolMessage(<<"Updated file", file_path>>, id)>>, {}))

edit_file(st, file_path, old_string, new_string, replace_all, id) ==
    IF file_path \notin DOMAIN st.files
    THEN Text(st, <<"Error: File not found", file_path>>, id)
    ELSE LET content     == st.files[file_path]
             occurrences == count(content, old_string)
         IN  IF occurrences = 0
             THEN Text(st, <<"Error: String not found in file">>, id)
             ELSE IF ~replace_all /\ occurrences > 1
             THEN Text(st, <<"Error: String appears several times in file">>, id)
             ELSE LET new_content == IF replace_all
                                     THEN replace(content, old_string, new_string, -1)
                                     ELSE replace(content, old_string, new_string, 1)
                      fs == [st.files EXCEPT ![file_path] = new_content]
                      result_msg == IF replace_all
                                    THEN <<"Successfully replaced", Numeral(occurrences),
                                           "instance(s)">>
                                    ELSE <<"Successfully replaced string">>
                  IN  ToolResult([st EXCEPT !.files = fs],
                          Update({"files", "messages"}, fs, <<>>,
                                 <<ToolMessage(result_msg, id)>>, {}))

\* The registered operations: the built-in tools (all_builtin_tools).
BuiltinTools == {"write_todos", "write_file", "read_file", "ls", "edit_file"}

\* A tool call of a session: every tool reads the arguments it declares.
ToolCall(name, file_path, content, old_string, new_string, ts, id) ==
    [name |-> name, file_path |-> file_path, content |-> content,
     old_string |-> old_string, new_string |-> new_string, todos |-> ts, id |-> id]

\* The tool node of a session built with the tools named in toolset: a call
\* of any other name is answered with an error message and runs nothing.
\* A tool that is not a store tool changes no state.
RunTool(toolset, c, st) ==
    IF c.name \notin toolset
    THEN Text(st, <<"Error: not a valid tool", c.name>>, c.id)
    ELSE CASE c.name = "write_file" -> write_file(st, c.file_path, c.content, c.id)
           [] c.name = "edit_file"  ->
                  edit_file(st, c.file_path, c.old_string, c.new_string, FALSE, c.id)
           [] c.name = "read_file"  ->
                  read_file(st, c.file_path, 0, DefaultLimit, c.id)
           [] c.name = "write_todos" -> write_todos(st, c.todos, c.id)
           [] OTHER -> Text(st, <<"ok", c.name>>, c.id)

----------------------------------------------------------------------------
(* The real store (real_fs_tools.py; local_fs_tools.py has the same ls,     *)
(* read_file, write_file, edit_file and glob).  The disk is a function from *)
(* the paths of its files to their contents; a directory exists when a file *)
(* lies under it, and the working directory always exists.  Paths are       *)
(* relative to the working directory.                                       *)

\* ord(c) of the characters the scenarios use.
ord(c) ==
    CASE c = "\t" -> 9  [] c = "\n" -> 10 [] c = " " -> 32 [] c = "*" -> 42
      [] c = "." -> 46  [] c = "/" -> 47  [] c = "2" -> 50 [] c = "?" -> 63
      [] c = "X" -> 88  [] c = "a" -> 97  [] c = "b" -> 98 [] c = "c" -> 99
      [] c = "k" -> 107 [] c = "p" -> 112 [] c = "s" -> 115 [] c = "t" -> 116
      [] c = "x" -> 120 [] OTHER -> 0

\* s <= t for two strings.
RECURSIVE str_le(_, _)
str_le(s, t) ==
    IF s = <<>> THEN TRUE
    ELSE IF t = <<>> THEN FALSE
    ELSE IF ord(Head(s)) # ord(Head(t)) THEN ord(Head(s)) < ord(Head(t))
    ELSE str_le(Tail(s), Tail(t))

\* sorted(items) of distinct strings.
RECURSIVE sorted(_)
sorted(items) ==
    IF items = {} THEN <<>>
    ELSE LET m == CHOOSE x \in items : \A y \in items : str_le(x, y)
         IN  <<m>> \o sorted(items \ {m})

\* pathlib.Path(path).parts: the components of a path, without the empty
\* ones and the "." ones.
PathParts(path) == SelectSeq(split(path, "/"), LAMBDA c : c # <<>> /\ c # <<".">>)

\* str(path_obj).
PathStr(parts) == IF parts = <<>> THEN <<".">> ELSE join(parts, "/")

IsPrefix(a, b) == Len(a) <= Len(b) /\ SubSeq(b, 1, Len(a)) = a

\* path_obj.is_file(), path_obj.is_dir(), path_obj.exists().
is_file(disk, parts) == PathStr(parts) \in DOMAIN disk
is_dir(disk, parts) ==
    \/ parts = <<>>
    \/ \E f \in DOMAIN disk : IsPrefix(parts, PathParts(f)) /\ parts # PathParts(f)
exists(disk, parts) == is_file(disk, parts) \/ is_dir(disk, parts)

\* What a tool of the real store leaves behind: the disk and its result.
Done(disk, result) == [disk |-> disk, result |-> result]

\* path_obj.iterdir(): the names of the entries of a directory.
iterdir(disk, parts) ==
    { PathParts(f)[Len(parts) + 1] :
        f \in { g \in DOMAIN disk : IsPrefix(parts, PathParts(g)) /\ parts # PathParts(g) } }

real_ls(disk, path) ==
    LET path_obj == PathParts(path)
    IN  IF ~exists(disk, path_obj) THEN <<<<"Error: Path does not exist">>>>
        ELSE IF ~is_dir(disk, path_obj) THEN <<<<"Error: Path is not a directory">>>>
        ELSE sorted(iterdir(disk, path_obj))

real_read_file(disk, file_path, offset, limit) ==
    LET path_obj == PathParts(file_path)
    IN  IF ~exists(disk, path_obj) THEN <<"Error: File not found">>
        ELSE IF ~is_file(disk, path_obj) THEN <<"Error: is not a file">>
        ELSE format_lines(disk[PathStr(path_obj)], offset, limit)

\* write_file: mkdir(parents=True, exist_ok=True) raises when an ancestor of
\* the path is a file, open(path, "w") when the path is a directory.
real_write_file(disk, file_path, content) ==
    LET path_obj == PathParts(file_path)
        blocked  == \E n \in 1..(Len(path_obj) - 1) : is_file(disk, SubSeq(path_obj, 1, n))
    IN  IF blocked \/ is_dir(disk, path_obj)
        THEN Done(disk, <<"Error writing file">>)
        ELSE Done([p \in DOMAIN disk \cup {PathStr(path_obj)} |->
                      IF p = PathStr(path_obj) THEN content ELSE disk[p]],
                  <<"Successfully wrote to file">>)

real_edit_file(disk, file_path, old_string, new_string, replace_all) ==
    LET path_obj == PathParts(file_path)
    IN  IF ~exists(disk, path_obj) THEN Done(disk, <<"Error: File not found">>)
        ELSE IF ~is_file(disk, path_obj) THEN Done(disk, <<"Error: is not a file">>)
        ELSE LET content     == disk[PathStr(path_obj)]
                 occurrences == count(content, old_string)
             IN  IF occurrences = 0
                 THEN Done(disk, <<"Error: String not found in file">>)
                 ELSE IF ~replace_all /\ occurrences > 1
                 THEN Done(disk, <<"Error: String appears several times in file">>)
                 ELSE Done([disk EXCEPT ![PathStr(path_obj)] =
                               IF replace_all
                               THEN replace(content, old_string, new_string, -1)
                               ELSE replace(content, old_string, new_string, 1)],
                           IF replace_all
                           THEN <<"Successfully replaced", Numeral(occurrences),
                                  "instance(s)">>
                           ELSE <<"Successfully replaced string">>)

----------------------------------------------------------------------------
(* The pattern matcher: glob and grep of the virtual store (tools.py), of   *)
(* the real store (real_fs_tools.py) and the ripgrep front-end of           *)
(* local_fs_tools.py.  A result is the record of what the returned text     *)
(* says.                                                                    *)

\* fnmatch.fnmatch(name, pat) for patterns made of "*", "?" and literal
\* characters; "*" also matches "/".
RECURSIVE fnmatch(_, _)
fnmatch(name, pat) ==
    IF pat = <<>> THEN name = <<>>
    ELSE IF Head(pat) = "*"
    THEN \E k \in 0..Len(name) : fnmatch(SubSeq(name, k + 1, Len(name)), Tail(pat))
    ELSE IF name = <<>> THEN FALSE
    ELSE (Head(pat) = "?" \/ Head(pat) = Head(name)) /\ fnmatch(Tail(name), Tail(pat))

\* s.rstrip("/") and s.lstrip("/").
RECURSIVE rstrip(_)
rstrip(s) == IF s # <<>> /\ s[Len(s)] = "/" THEN rstrip(SubSeq(s, 1, Len(s) - 1)) ELSE s
RECURSIVE lstrip(_)
lstrip(s) == IF s # <<>> /\ Head(s) = "/" THEN lstrip(Tail(s)) ELSE s

\* The search path glob and grep of the virtual store work with.
SearchPath(path) == IF rstrip(path) = <<".">> THEN <<>> ELSE rstrip(path)

\* The keys of the files dict, in the order of their insertion.
dict_keys(order, fs) == SelectSeq(order, LAMBDA p : p \in DOMAIN fs)

\* files[file_path] = content puts a new key behind the keys of the dict.
dict_set(order, file_path) ==
    IF \E k \in 1..Len(order) : order[k] = file_path THEN order
    ELSE Append(order, file_path)

\* ls of the virtual store: list(files.keys()).
ls(order, fs) == dict_keys(order, fs)

\* The files glob and grep keep for a search path: those that start with it
\* and, for a search that is not recursive, have no "/" behind it.
Contains(s, c) == \E k \in 1..Len(s) : s[k] = c

Candidate(search_path, recursive, file_path) ==
    LET relative_path ==
            lstrip(SubSeq(file_path, Len(search_path) + 1, Len(file_path)))
    IN  /\ search_path # <<>> => StartsWith(file_path, search_path)
        /\ (~recursive /\ search_path # <<>>) => ~Contains(relative_path, "/")

\* What glob and grep say: found with the results, none, or why not.
Found(results)  == [status |-> "found", results |-> results]
NoMatches       == [status |-> "none", results |-> <<>>]
Failed(why)     == [status |-> why, results |-> <<>>]

\* The subsets of n elements of a set (all of it when it has fewer).
Choose(items, n) ==
    { c \in SUBSET items : Cardinality(c) = Min(n, Cardinality(items)) }

Range(seq) == { seq[k] : k \in 1..Len(seq) }

\* glob of the virtual store.  The directory paths are kept in a set, whose
\* iteration order is not fixed: every order gives one possible result.
glob(pattern, path, max_results, include_dirs, recursive, order, fs) ==
    LET search_path == SearchPath(path)
        candidate_paths ==
            SelectSeq(dict_keys(order, fs),
                      LAMBDA f : Candidate(search_path, recursive, f))
        dirs_of(f) ==
            LET path_parts == split(f, "/")
            IN  { join(SubSeq(path_parts, 1, i), "/") : i \in 1..(Len(path_parts) - 1) }
        dir_paths ==
            IF include_dirs
            THEN { Append(d, "/") :
                     d \in { e \in UNION { dirs_of(candidate_paths[k]) :
                                             k \in 1..Len(candidate_paths) } :
                               search_path = <<>> \/ StartsWith(e, search_path) } }
            ELSE {}
        relative(full_path) ==
            IF search_path # <<>>
            THEN lstrip(SubSeq(full_path, Len(search_path) + 1, Len(full_path)))
            ELSE full_path
        hit(full_path) ==
            LET relative_path == relative(full_path)
                filename == split(relative_path, "/")[Len(split(relative_path, "/"))]
            IN  \/ fnmatch(relative_path, pattern)
                \/ /\ recursive
                   /\ Contains(relative_path, "/")
                   /\ fnmatch(filename, pattern)
        files_hit == SelectSeq(candidate_paths, hit)
        dirs_hit  == { d \in dir_paths : hit(d) }
        room      == IF max_results > 0 THEN max_results ELSE 0
        kept      == IF Len(files_hit) >= room
                     THEN { Range(SubSeq(files_hit, 1, room)) }
                     ELSE { Range(files_hit) \cup c :
                              c \in Choose(dirs_hit, room - Len(files_hit)) }
    IN  IF DOMAIN fs = {} THEN { Failed("no files") }
        ELSE { IF results = {} THEN NoMatches ELSE Found(sorted(results)) :
                 results \in kept }

\* The entries below a directory of the disk, as paths relative to it:
\* its files and its directories.
Below(disk, root) ==
    UNION { { SubSeq(PathParts(f), Len(root) + 1, Len(root) + m) :
                m \in 1..(Len(PathParts(f)) - Len(root)) } :
            f \in { g \in DOMAIN disk : IsPrefix(root, PathParts(g)) } }

\* path_obj.glob(pattern) and path_obj.rglob(pattern): the entries whose
\* components match the components of the pattern, rglob at any depth.
PathMatches(rel, pattern, recursive) ==
    LET pat == PathParts(pattern)
        n   == Len(pat)
    IN  /\ n > 0
        /\ IF recursive THEN Len(rel) >= n ELSE Len(rel) = n
        /\ \A k \in 1..n : fnmatch(rel[Len(rel) - n + k], pat[k])

\* glob of the real store.  The matches come in the order of the directory
\* scan, which is not fixed: every order gives one possible result.
real_glob(pattern, path, max_results, include_dirs, recursive, disk) ==
    LET path_obj == PathParts(path)
        matches  == { m \in Below(disk, path_obj) : PathMatches(m, pattern, recursive) }
        shown    == { PathStr(path_obj \o m) :
                        m \in { e \in matches : is_file(disk, path_obj \o e) } }
                    \cup
                    { Append(PathStr(path_obj \o m), "/") :
                        m \in { e \in matches : include_dirs /\ is_dir(disk, path_obj \o e) } }
        room     == IF max_results > 0 THEN max_results ELSE 0
    IN  IF ~exists(disk, path_obj) THEN { Failed("does not exist") }
        ELSE IF ~is_dir(disk, path_obj) THEN { Failed("not a directory") }
        ELSE { IF results = {} THEN NoMatches ELSE Found(sorted(results)) :
                 results \in Choose(shown, room) }

\* str.lower() over the characters the scenarios use.
lower(s) == [k \in 1..Len(s) |-> IF s[k] = "X" THEN "x" ELSE s[k]]

\* pattern in line.
In(pattern, line) ==
    \E k \in 0..(Len(line) - Len(pattern)) : SubSeq(line, k + 1, k + Len(pattern)) = pattern

\* match_found for a literal pattern (regex=False).
match_found(pattern, line, case_sensitive) ==
    IF case_sensitive THEN In(pattern, line) ELSE In(lower(pattern), lower(line))

\* The numbers of the lines of a text that match, in order.
MatchingLines(content, pattern, case_sensitive) ==
    LET lines == splitlines(content)
    IN  SelectSeq([k \in 1..Len(lines) |-> k],
                  LAMBDA k : match_found(pattern, lines[k], case_sensitive))

Match(file_path, line_num) == [file |-> file_path, line_num |-> line_num]

\* The search loop of grep from the file at the head of files_to_search on,
\* total_matches being the matches counted so far: the loop leaves a file,
\* and the search, as soon as max_results matches are counted.
RECURSIVE search_files(_, _, _, _, _, _)
search_files(files_to_search, content_of, pattern, case_sensitive, max_results, total_matches) ==
    IF files_to_search = <<>> \/ total_matches >= max_results THEN <<>>
    ELSE LET file_path == Head(files_to_search)
             hits == MatchingLines(content_of[file_path], pattern, case_sensitive)
             file_matches == SubSeq(hits, 1, Min(Len(hits), max_results - total_matches))
         IN  [k \in 1..Len(file_matches) |-> Match(file_path, file_matches[k])]
             \o search_files(Tail(files_to_search), content_of, pattern, case_sensitive,
                             max_results, total_matches + Len(file_matches))

Report(matches) == IF matches = <<>> THEN NoMatches ELSE Found(matches)

\* grep of the virtual store, for a literal pattern without context lines.
grep(pattern, files_arg, path, file_pattern, max_results, case_sensitive, recursive, order, fs) ==
    LET search_path == SearchPath(path)
        listed == SelectSeq(dict_keys(order, fs),
                      LAMBDA f : /\ Candidate(search_path, recursive, f)
                                 /\ fnmatch(split(f, "/")[Len(split(f, "/"))],
                                            file_pattern))
        files_to_search == IF files_arg # <<>> THEN files_arg ELSE listed
    IN  IF DOMAIN fs = {} THEN Failed("no files")
        ELSE IF files_arg = <<>> /\ path = <<>> THEN Failed("no target")
        ELSE IF files_arg # <<>> /\ \E k \in 1..Len(files_arg) : files_arg[k] \notin DOMAIN fs
        THEN Failed("does not exist")
        ELSE IF files_to_search = <<>> THEN Failed("no files to search")
        ELSE Report(search_files(files_to_search, fs, pattern, case_sensitive,
                                 max_results, 0))

\* The orders a set of files can be scanned in.
Orders(items) ==
    { o \in [1..Cardinality(items) -> items] :
        \A i, j \in 1..Cardinality(items) : i # j => o[i] # o[j] }

\* grep of the real store.  The files of a directory come in the order of
\* the scan, which is not fixed: every order gives one possible result.
real_grep(pattern, files_arg, path, file_pattern, max_results, case_sensitive, recursive, disk) ==
    LET path_obj == PathParts(path)
        named == [k \in 1..Len(files_arg) |-> PathStr(PathParts(files_arg[k]))]
        found == { PathStr(path_obj \o m) :
                     m \in { e \in Below(disk, path_obj) :
                               /\ PathMatches(e, file_pattern, recursive)
                               /\ is_file(disk, path_obj \o e) } }
        run(files_to_search) ==
            Report(search_files(files_to_search, disk, pattern, case_sensitive,
                                max_results, 0))
    IN  IF files_arg = <<>> /\ path = <<>> THEN { Failed("no target") }
        ELSE IF files_arg # <<>>
        THEN IF \E k \in 1..Len(files_arg) : ~is_file(disk, PathParts(files_arg[k]))
             THEN { Failed("does not exist") }
             ELSE { run(named) }
        ELSE IF ~exists(disk, path_obj) THEN { Failed("does not exist") }
        ELSE IF ~is_dir(disk, path_obj) THEN { Failed("not a directory") }
        ELSE IF found = {} THEN { Failed("no files to search") }
        ELSE { run(o) : o \in Orders(found) }

\* rg -m NUM: the first NUM matching lines of each file it searches.
rg_max_count(hits, max_results) ==
    IF max_results > 0 THEN SubSeq(hits, 1, Min(Len(hits), max_results)) ELSE hits

\* What rg prints for the files it searches.
RECURSIVE rg_output(_, _, _, _, _)
rg_output(searched, disk, pattern, case_sensitive, max_results) ==
    IF searched = <<>> THEN <<>>
    ELSE LET kept == rg_max_count(MatchingLines(disk[Head(searched)], pattern,
                                                case_sensitive), max_results)
         IN  [k \in 1..Len(kept) |-> Match(Head(searched), kept[k])]
             \o rg_output(Tail(searched), disk, pattern, case_sensitive, max_results)

\* grep of local_fs_tools.py: the output of rg, run in the directory of
\* path when path is a directory, on the files or on path.  rg searches a
\* directory at every depth; -g keeps the files whose name matches.  The
\* lines of the files are given in the order of the file names.
local_grep(pattern, files_arg, path, file_pattern, max_results, case_sensitive, disk) ==
    LET path_obj == PathParts(path)
        cwd      == IF path # <<>> /\ is_dir(disk, path_obj) THEN path_obj ELSE <<>>
        target   == cwd \o path_obj
        named    == [k \in 1..Len(files_arg) |-> PathStr(cwd \o PathParts(files_arg[k]))]
        under    == { PathStr(target \o m) :
                        m \in { e \in Below(disk, target) :
                                  /\ is_file(disk, target \o e)
                                  /\ file_pattern # <<"*">>
                                     => fnmatch(e[Len(e)], file_pattern) } }
        searched == IF files_arg # <<>> THEN named
                    ELSE IF is_file(disk, target) THEN <<PathStr(target)>>
                    ELSE sorted(under)
    IN  IF files_arg = <<>> /\ path = <<>> THEN Failed("no target")
        ELSE IF files_arg # <<>> /\ \E k \in 1..Len(named) : named[k] \notin DOMAIN disk
        THEN Failed("rg error")
        ELSE IF files_arg = <<>> /\ ~exists(disk, target) THEN Failed("rg error")
        ELSE Report(rg_output(searched, disk, pattern, case_sensitive, max_results))

----------------------------------------------------------------------------
(* The sub-agent registry and the task tool (sub_agent.py).                 *)

\* A SubAgent spec; has_tools tells whether it has a "tools" entry.
SubAgent(name, has_tools, tools) ==
    [name |-> name, has_tools |-> has_tools, tools |-> tools]

\* The implicit agent is built from no spec.
NoSpec == SubAgent("", FALSE, <<>>)

\* A compiled agent: the tools of its tool node, the keys of its state and
\* the spec it was built from.
Agent(toolset, schema, spec) == [tools |-> toolset, schema |-> schema, spec |-> spec]

EmptyRegistry == [n \in {} |-> Agent({}, {}, NoSpec)]

Put(f, k, v) == [x \in DOMAIN f \cup {k} |-> IF x = k THEN v ELSE f[x]]

\* The outcome of building the registry: a KeyError leaves no registry.
Built(ok, ags) == [ok |-> ok, agents |-> ags]

SubAgentTools_all(_agent, tools) == tools

\* _tools of a custom sub-agent: the tools it names, every tool if it has
\* no "tools" entry.
SubAgentTools(_agent, tools) ==
    IF _agent.has_tools THEN { _agent.tools[k] : k \in 1..Len(_agent.tools) }
    ELSE tools

\* The loop of _get_agents over subagents[k..]: tools_by_name[t] raises
\* KeyError for a name that is no tool.
RECURSIVE get_agents_loop(_, _, _, _)
get_agents_loop(ags, tools, subagents, k) ==
    IF k > Len(subagents) THEN Built(TRUE, ags)
    ELSE LET _agent == subagents[k]
         IN  IF _agent.has_tools
                /\ \E n \in 1..Len(_agent.tools) : _agent.tools[n] \notin tools
             THEN Built(FALSE, EmptyRegistry)
             ELSE get_agents_loop(
                      Put(ags, _agent.name,
                          Agent(SubAgentTools(_agent, tools), StateSchema, _agent)),
                      tools, subagents, k + 1)

\* _get_agents: "general-purpose" is built with every tool and without a
\* state schema, then each sub-agent is stored under its name.
get_agents(tools, subagents) ==
    get_agents_loop(Put(EmptyRegistry, "general-purpose",
                        Agent(tools, DefaultSchema, NoSpec)),
                    tools, subagents, 1)

\* create_task_tool of claude_everything: the statement in its loop is an
\* annotation of agents[name], not an assignment, and a function body does
\* not evaluate annotations: no custom agent is stored and no tool name is
\* looked up.
create_task_tool(tools, custom_agents) ==
    Built(TRUE, Put(EmptyRegistry, "general-purpose", Agent(tools, DefaultSchema, NoSpec)))

\* The registry of the package the agent is built from.
Registry(s) ==
    IF s.package = "deepagents" THEN get_agents(s.tools, s.subagents)
    ELSE create_task_tool(s.tools, s.subagents)

\* task with a subagent_type that is not in agents.
UnknownAgent(st, subagent_type, id) ==
    Text(st, <<"Error: invoked agent of type", subagent_type>>, id)

\* The input of sub_agent.invoke: deepagents passes the injected state with
\* its messages replaced, claude_everything a new map with messages only.
task_input(package, st, description) ==
    IF package = "deepagents"
    THEN [st EXCEPT !.messages = <<UserMessage(description)>>]
    ELSE State(EmptyFiles, <<>>, <<UserMessage(description)>>, {})

\* The state map task was handed, once it has called the sub-agent:
\* deepagents assigns state["messages"], claude_everything is handed none.
task_state(package, st, description) ==
    IF package = "deepagents" THEN task_input(package, st, description) ELSE st

task_update_with_todos(package, result, id) ==
    Update({"files", "todos", "messages"}, result.files, result.todos,
           <<ToolMessage(result.messages[Len(result.messages)].content, id)>>, {})

task_update_with_cache(package, result, id) ==
    Update({"files", "messages", "approved_operations"}, result.files, <<>>,
           <<ToolMessage(result.messages[Len(result.messages)].content, id)>>,
           result.approved_operations)

\* What task returns for the final state of the child: deepagents a Command
\* with the child's files and one ToolMessage, claude_everything the content
\* of the child's last message.
task_update(package, result, id) ==
    LET final == <<ToolMessage(result.messages[Len(result.messages)].content, id)>>
    IN  IF package = "deepagents"
        THEN Update({"files", "messages"}, result.files, <<>>, final, {})
        ELSE Update({"messages"}, EmptyFiles, <<>>, final, {})

\* A child session: its phase, the agent type, its state, the state it
\* started with, the tools it has executed and the last content it wrote
\* to each path.
Child(ph, type, st, first, ran, wrote) ==
    [phase |-> ph, type |-> type, state |-> st, start |-> first, ran |-> ran,
     wrote |-> wrote]

NoState == State(EmptyFiles, <<>>, <<>>, {})
NoChild == Child("none", "", NoState, NoState, {}, EmptyFiles)

\* The tool call of a child as the hook sees it.
GateCall(c) ==
    [name |-> c.name,
     args |-> Args(IF c.file_path = "" THEN <<>> ELSE <<c.file_path>>, <<>>, <<>>),
     id   |-> c.id]

\* The post-model hook of a child session on the one call c, given the
\* decisions ds of the human: every agent of the registry is built with
\* the hook of the parent, or with none.
ChildGate(kind, c, cache, ds) ==
    IF kind = "none" THEN Result("return", <<GateCall(c)>>, cache, {}, NoPrompt, <<>>)
    ELSE Hook(kind, <<GateCall(c)>>, cache, ds)

----------------------------------------------------------------------------
(* The scenarios of the delegation engine.                                  *)

\* Child steps over all the children of a run.
MaxChildSteps == 2

Digit(i) == CASE i = 1 -> "1" [] i = 2 -> "2" [] OTHER -> "n"

\* The tool calls the model of child i can propose.
ChildCatalogue(i) ==
    { ToolCall("write_file", "p", <<Digit(i)>>, <<>>, <<>>, <<>>, 0),
      ToolCall("write_file", "q", <<Digit(i)>>, <<>>, <<>>, <<>>, 0),
      ToolCall("edit_file", "p", <<>>, <<"a">>, <<"e", Digit(i)>>, <<>>, 0),
      ToolCall("write_todos", "", <<>>, <<>>, <<>>, <<Todo(Digit(i), "pending")>>, 0),
      ToolCall("read_file", "p", <<>>, <<>>, <<>>, <<>>, 0) }

\* The content of the last message of child i.
FinalContent(i) == <<"report", Digit(i)>>

\* A tool call of the parent: a task call or a call of a store tool.
ParentCall(name, description, subagent_type, file_path, content) ==
    [name |-> name, description |-> description, subagent_type |-> subagent_type,
     file_path |-> file_path, content |-> content]
TaskCall(description, subagent_type) ==
    ParentCall("task", description, subagent_type, "", <<>>)
WriteCall(file_path, content) == ParentCall("write_file", <<>>, "", file_path, content)

DelegateCatalogue ==
    { TaskCall(<<"d1">>, "general-purpose"), TaskCall(<<"d2">>, "writer"),
      WriteCall("q", <<"0">>) }

RegistryCatalogue ==
    { TaskCall(<<"d1">>, "general-purpose"), TaskCall(<<"d2">>, "reader"),
      TaskCall(<<"d3">>, "writer"), TaskCall(<<"d4">>, "nope"),
      WriteCall("q", <<"0">>) }

\* The batches of up to n parent calls; a call's id is its position.
ParentBatches(cat, n) ==
    UNION { { [i \in 1..m |->
                 [name |-> b[i].name, description |-> b[i].description,
                  subagent_type |-> b[i].subagent_type, file_path |-> b[i].file_path,
                  content |-> b[i].content, id |-> i]] : b \in [1..m -> cat] } :
            m \in 1..n }

\* How an agent is built: the package, the registered tools, the sub-agent
\* specs, and what its model proposes.
Setup(package, tools, subagents, cat, n) ==
    [package |-> package, tools |-> tools, subagents |-> subagents,
     catalogue |-> cat, batch |-> n]

NoSetup == Setup("", {}, <<>>, {}, 0)

Writer == SubAgent("writer", FALSE, <<>>)
Reader == SubAgent("reader", TRUE, <<"read_file">>)

DelegateSetups ==
    { Setup(pk, BuiltinTools, <<Writer>>, DelegateCatalogue, 2) :
        pk \in {"deepagents", "claude_everything"} }

RegistrySetups ==
    { Setup(pk, BuiltinTools, subs, RegistryCatalogue, 1) :
        pk \in {"deepagents", "claude_everything"},
        subs \in { <<>>, <<Reader>>, <<Reader, Writer>>,
                   <<SubAgent("writer", TRUE, <<"read_file", "search">>)>>,
                   <<Reader, SubAgent("general-purpose", TRUE, <<"read_file">>)>> } }

----------------------------------------------------------------------------
(* The agent loop.                                                          *)

Live(calls, cache) == [tool_calls |-> calls, cached_approvals |-> cache]

\* The directory a tool call targets, resolved against the file system:
\* walk the components from the root (or from the working directory).
RECURSIVE Walk(_, _)
Walk(comps, at) ==
    IF comps = <<>> THEN at
    ELSE LET c == Head(comps)
         IN  Walk(Tail(comps),
                  IF c = "." THEN at
                  ELSE IF c = ".." THEN (IF at = <<>> THEN at ELSE Front(at))
                  ELSE Append(at, c))

Resolve(p) == Walk(Components(p), IF isabs(p) THEN <<>> ELSE Tail(getcwd))

\* The directory a proposal is about: the parent directory of the file of a
\* file operation, the working directory of a process, the path of a listing
\* or search; a proposal that names no path is about the working directory
\* of the agent.
TargetDirectory(name, args) ==
    IF name \in {"write_file", "str_replace_based_edit_tool", "edit_file"}
    THEN LET t == Resolve(Or(args.file_path, args.path))
         IN  IF Or(args.file_path, args.path) = <<>> THEN Resolve(getcwd)
             ELSE IF t = <<>> THEN t ELSE Front(t)
    ELSE IF name = "execute_bash" THEN Resolve(Or(args.cwd, getcwd))
    ELSE Resolve(Or(args.path, getcwd))

\* The state after the agent is built, before the first model step.
Start ==
    /\ pc = "model"
    /\ step = 0
    /\ tool_calls = <<>>
    /\ approved_operations = {}
    /\ answered = {}
    /\ resumes = <<>>
    /\ prompt = NoPrompt
    /\ live = Live(<<>>, {})
    /\ executed = <<>>
    /\ proposed = <<>>
    /\ cache0 = {}
    /\ prompts = <<>>
    /\ gate = <<>>
    /\ accepted = {}
    /\ granted = {}

\* The delegation engine is idle while the gate scenarios run.
DelegationIdle ==
    /\ setup = NoSetup
    /\ agents = EmptyRegistry
    /\ phase = "off"
    /\ files = EmptyFiles
    /\ todos = <<>>
    /\ messages = <<>>
    /\ stepCalls = <<>>
    /\ callStatus = <<>>
    /\ injected = <<>>
    /\ begin = NoState
    /\ child = <<>>
    /\ childSteps = 0

\* An operation of a file store scenario: its name, its arguments, the
\* files before it and its result.
Op(name, args, before, result) ==
    [name |-> name, args |-> args, before |-> before, result |-> result]
NoOp == Op("none", <<>>, EmptyFiles, <<>>)

\* The file store scenarios are idle while the gate and the delegation
\* engine run.
StoreIdle ==
    /\ backend = ""
    /\ store = EmptyFiles
    /\ inserted = <<>>
    /\ last = NoOp
    /\ ops = 0

Init ==
    /\ world = [catalogue |-> Catalogue, batch |-> MaxBatch]
    /\ hookKind \in {"cache", "config"}
    /\ Start
    /\ DelegationIdle
    /\ StoreIdle

\* The caching gate alone, proposing one call at a time from the key scenario.
InitKeys ==
    /\ world = [catalogue |-> KeyCatalogue, batch |-> 1]
    /\ hookKind = "cache"
    /\ Start
    /\ DelegationIdle
    /\ StoreIdle

\* The model node appends an AI message with the tool calls b.
ModelStep ==
    /\ pc = "model"
    /\ step < MaxSteps
    /\ step' = step + 1
    /\ \E b \in Batches(world.catalogue, world.batch) :
          /\ tool_calls' = b
          /\ proposed' = b
          /\ live' = Live(b, approved_operations)
    /\ cache0' = approved_operations
    /\ pc' = "hook"
    /\ UNCHANGED <<world, hookKind, approved_operations, answered, resumes, prompt, executed,
                   prompts, gate, accepted, granted>>
    /\ UNCHANGED dvars

\* The hook is executed on the checkpointed state with the resume values rs.
\* An interrupt leaves the checkpointed state as it is and surfaces the
\* prompt; a return is applied to the state; an error aborts the step.
Outcome(rs, fresh) ==
    LET r == Hook(hookKind, tool_calls, approved_operations, rs) IN
    /\ gate' = r.trace
    /\ live' = Live(r.tool_calls, r.cache)
    /\ granted' = granted \cup
           { [kind |-> e.name, dir |-> TargetDirectory(e.name, proposed[e.id].args)] :
               e \in { r.trace[i] : i \in { n \in 1..Len(r.trace) :
                                             hookKind = "cache"
                                             /\ r.trace[n].event = "accept" } } }
    /\ CASE r.status = "interrupt" ->
              /\ pc' = "suspended"
              /\ prompt' = r.prompt
              /\ prompts' = IF fresh THEN Append(prompts, r.prompt) ELSE prompts
              /\ UNCHANGED <<tool_calls, approved_operations, answered>>
         [] r.status = "return" ->
              /\ pc' = "tools"
              /\ prompt' = NoPrompt
              /\ tool_calls' = r.tool_calls
              /\ approved_operations' = r.cache
              /\ answered' = r.answered
              /\ UNCHANGED prompts
         [] OTHER ->
              /\ pc' = "error"
              /\ prompt' = NoPrompt
              /\ UNCHANGED <<tool_calls, approved_operations, answered, prompts>>

\* First execution of the hook on the model's message.
RunHook ==
    /\ pc = "hook"
    /\ Outcome(resumes, TRUE)
    /\ UNCHANGED <<world, hookKind, step, resumes, executed, proposed, cache0, accepted>>
    /\ UNCHANGED dvars

\* The caller resumes with a value v: the hook is executed again with v
\* added to the resume values.
Resume ==
    /\ pc = "suspended"
    /\ \E v \in ResumeValues(hookKind) :
          /\ resumes' = Append(resumes, v)
          /\ accepted' = IF IsAccept(v) THEN accepted \cup {prompt.approval_key}
                          ELSE accepted
    /\ Outcome(resumes', TRUE)
    /\ UNCHANGED <<world, hookKind, step, executed, proposed, cache0>>
    /\ UNCHANGED dvars

\* The wait for the decision is cancelled or times out: the run stops.
Cancel ==
    /\ pc = "suspended"
    /\ pc' = "cancelled"
    /\ UNCHANGED <<world, hookKind, step, tool_calls, approved_operations, answered, resumes,
                   prompt, live, executed, proposed, cache0, prompts, gate, accepted,
                   granted>>
    /\ UNCHANGED dvars

\* The step is retried from the checkpoint: the hook is executed again.
Retry ==
    /\ pc = "cancelled"
    /\ Outcome(resumes, FALSE)
    /\ UNCHANGED <<world, hookKind, step, resumes, executed, proposed, cache0, accepted>>
    /\ UNCHANGED dvars

\* The tool node runs the calls of the last AI message that have no tool
\* message yet, in the order of the message.
ExecuteTools ==
    /\ pc = "tools"
    /\ executed' = SelectSeq(tool_calls, LAMBDA c : c.id \notin answered)
    /\ pc' = "observe"
    /\ UNCHANGED <<world, hookKind, step, tool_calls, approved_operations, answered, resumes,
                   prompt, live, proposed, cache0, prompts, gate, accepted, granted>>
    /\ UNCHANGED dvars

\* The tool results enter the context and the loop goes back to the model.
Continue ==
    /\ pc = "observe"
    /\ pc' = "model"
    /\ tool_calls' = <<>>
    /\ answered' = {}
    /\ resumes' = <<>>
    /\ live' = Live(<<>>, approved_operations)
    /\ executed' = <<>>
    /\ proposed' = <<>>
    /\ cache0' = approved_operations
    /\ prompts' = <<>>
    /\ gate' = <<>>
    /\ UNCHANGED <<world, hookKind, step, approved_operations, prompt, accepted, granted>>
    /\ UNCHANGED dvars

Next ==
    \/ ModelStep
    \/ RunHook
    \/ Resume
    \/ Cancel
    \/ Retry
    \/ ExecuteTools
    \/ Continue

Spec == Init /\ [][Next]_vars

SpecKeys == InitKeys /\ [][Next]_vars


----------------------------------------------------------------------------
(* The delegation engine: one step of the parent whose tool stepCalls are task  *)
(* stepCalls and store stepCalls.  The stepCalls of a step run concurrently, each on    *)
(* the state map it was handed when the step began; the update a call       *)
(* returns is applied to the parent as the call completes.  A decision of   *)
(* the human inside a child session is taken with the step that asked it.   *)

Parent == State(files, todos, messages, approved_operations)

SetParent(st) ==
    /\ files' = st.files
    /\ todos' = st.todos
    /\ messages' = st.messages
    /\ approved_operations' = st.approved_operations

\* The gate is idle while the delegation engine runs.
GateIdle ==
    /\ world = [catalogue |-> {}, batch |-> 0]
    /\ Start

InitDelegation(setups, stores) ==
    /\ GateIdle
    /\ setup \in setups
    /\ agents = EmptyRegistry
    /\ phase = "unbuilt"
    /\ files \in stores
    /\ todos = <<Todo("t0", "pending")>>
    /\ messages = <<UserMessage(<<"m0">>)>>
    /\ stepCalls = <<>>
    /\ callStatus = <<>>
    /\ injected = <<>>
    /\ begin = NoState
    /\ child = <<>>
    /\ childSteps = 0
    /\ StoreIdle

\* Two concurrent stepCalls, with and without a file in the parent's store.
InitDelegate ==
    /\ hookKind = "cache"
    /\ InitDelegation(DelegateSetups, {EmptyFiles, [p \in {"p"} |-> <<"a">>]})

\* One task call at a time, over the registries.
InitRegistry ==
    /\ hookKind = "none"
    /\ InitDelegation(RegistrySetups, {[p \in {"p"} |-> <<"a">>]})

\* The agent is built: the task tool is created with its registry.
Build ==
    /\ phase = "unbuilt"
    /\ LET r == Registry(setup)
       IN  /\ agents' = r.agents
           /\ phase' = IF r.ok THEN "idle" ELSE "build_failed"
    /\ UNCHANGED <<setup, files, todos, messages, stepCalls, callStatus, injected, begin, child,
                   childSteps, approved_operations, gvars>>

\* The model of the parent proposes the batch b and the tool node is handed
\* the state for each of its stepCalls.
ParentStep ==
    /\ phase = "idle"
    /\ \E b \in ParentBatches(setup.catalogue, setup.batch) :
          LET st == [Parent EXCEPT !.messages = Append(@, AIMessage(<<>>, b))]
          IN  /\ stepCalls' = b
              /\ messages' = st.messages
              /\ begin' = st
              /\ injected' = [i \in 1..Len(b) |-> st]
              /\ callStatus' = [i \in 1..Len(b) |-> "pending"]
              /\ child' = [i \in 1..Len(b) |-> NoChild]
    /\ phase' = "running"
    /\ UNCHANGED <<setup, agents, files, todos, childSteps, approved_operations, gvars>>

\* A store tool called by the parent runs and its update is applied.
DirectTool ==
    /\ phase = "running"
    /\ \E i \in 1..Len(stepCalls) :
          /\ callStatus[i] = "pending"
          /\ stepCalls[i].name # "task"
          /\ LET c == ToolCall(stepCalls[i].name, stepCalls[i].file_path, stepCalls[i].content,
                               <<>>, <<>>, <<>>, i)
                 r == RunTool(setup.tools, c, injected[i])
             IN  /\ injected' = [injected EXCEPT ![i] = r.state]
                 /\ SetParent(ApplyUpdate(Parent, r.update, StateSchema))
          /\ callStatus' = [callStatus EXCEPT ![i] = "returned"]
    /\ UNCHANGED <<setup, agents, phase, stepCalls, begin, child, childSteps, gvars>>

\* task is called: an unknown subagent_type is answered with the error
\* text, otherwise the sub-agent is invoked and its session starts.
TaskStart ==
    /\ phase = "running"
    /\ \E i \in 1..Len(stepCalls) :
          /\ callStatus[i] = "pending"
          /\ stepCalls[i].name = "task"
          /\ IF stepCalls[i].subagent_type \notin DOMAIN agents
             THEN /\ SetParent(ApplyUpdate(Parent,
                        UnknownAgent(injected[i], stepCalls[i].subagent_type, i).update,
                        StateSchema))
                  /\ callStatus' = [callStatus EXCEPT ![i] = "returned"]
                  /\ UNCHANGED <<injected, child>>
             ELSE LET sub_agent == agents[stepCalls[i].subagent_type]
                      first == Project(task_input(setup.package, injected[i],
                                                  stepCalls[i].description),
                                       sub_agent.schema)
                  IN  /\ injected' = [injected EXCEPT ![i] =
                             task_state(setup.package, injected[i], stepCalls[i].description)]
                      /\ child' = [child EXCEPT ![i] =
                             Child("running", stepCalls[i].subagent_type, first, first,
                                   {}, EmptyFiles)]
                      /\ callStatus' = [callStatus EXCEPT ![i] = "child"]
                      /\ UNCHANGED <<files, todos, messages, approved_operations>>
    /\ UNCHANGED <<setup, agents, phase, stepCalls, begin, childSteps, gvars>>

\* The human decisions given within one step of a child.
Decisions == {<<>>, <<Bool(TRUE)>>, <<Bool(FALSE)>>}

\* One step of a child session: its model proposes the call c, the hook
\* gates it, the tool node runs what is left.  A call the hook removes
\* leaves a last message without tool stepCalls, which ends the session.
ChildStep ==
    /\ phase = "running"
    /\ childSteps < MaxChildSteps
    /\ childSteps' = childSteps + 1
    /\ \E i \in 1..Len(stepCalls) :
          /\ child[i].phase = "running"
          /\ \E c0 \in ChildCatalogue(i), ds \in Decisions :
                LET sub_agent == agents[child[i].type]
                    st    == child[i].state
                    c     == [c0 EXCEPT !.id = Len(st.messages)]
                    g     == ChildGate(hookKind, c, st.approved_operations, ds)
                    kept  == g.tool_calls # <<>>
                    asked == ApplyUpdate(
                                 [st EXCEPT !.messages =
                                     Append(@, AIMessage(<<"call", c.name>>,
                                                         IF kept THEN <<c>> ELSE <<>>))],
                                 Update({"approved_operations"}, EmptyFiles, <<>>, <<>>,
                                        g.cache),
                                 sub_agent.schema)
                    r     == RunTool(sub_agent.tools, c, asked)
                    runs  == kept /\ c.name \in sub_agent.tools
                IN  /\ g.status = "return"
                    /\ Len(ds) = Cardinality({n \in 1..Len(g.trace) : g.trace[n].j > 0})
                    /\ child' = [child EXCEPT ![i] =
                          Child(IF kept THEN "running" ELSE "done",
                                @.type,
                                IF kept THEN ApplyUpdate(asked, r.update, sub_agent.schema)
                                ELSE asked,
                                @.start,
                                IF runs THEN @.ran \cup {c.name} ELSE @.ran,
                                IF runs /\ "files" \in r.update.keys
                                THEN Put(@.wrote, c.file_path, r.update.files[c.file_path])
                                ELSE @.wrote)]
    /\ UNCHANGED <<setup, agents, phase, files, todos, messages, stepCalls, callStatus, injected,
                   begin, approved_operations, gvars>>

\* The model of a child answers without tool stepCalls: the session ends.
ChildFinish ==
    /\ phase = "running"
    /\ \E i \in 1..Len(stepCalls) :
          /\ child[i].phase = "running"
          /\ child' = [child EXCEPT ![i].phase = "done",
                                    ![i].state.messages =
                                        Append(@, AIMessage(FinalContent(i), <<>>))]
    /\ UNCHANGED <<setup, agents, phase, files, todos, messages, stepCalls, callStatus, injected,
                   begin, childSteps, approved_operations, gvars>>

\* task returns: its update is applied to the parent.
TaskReturn ==
    /\ phase = "running"
    /\ \E i \in 1..Len(stepCalls) :
          /\ callStatus[i] = "child"
          /\ child[i].phase = "done"
          /\ SetParent(ApplyUpdate(Parent, task_update(setup.package, child[i].state, i),
                                   StateSchema))
          /\ child' = [child EXCEPT ![i].phase = "merged"]
          /\ callStatus' = [callStatus EXCEPT ![i] = "returned"]
    /\ UNCHANGED <<setup, agents, phase, stepCalls, injected, begin, childSteps, gvars>>

\* Every call of the step has returned: the step is over.
Commit ==
    /\ phase = "running"
    /\ \A i \in 1..Len(stepCalls) : callStatus[i] = "returned"
    /\ phase' = "done"
    /\ UNCHANGED <<setup, agents, files, todos, messages, stepCalls, callStatus, injected, begin,
                   child, childSteps, approved_operations, gvars>>

NextDelegate ==
    \/ Build
    \/ ParentStep
    \/ DirectTool
    \/ TaskStart
    \/ ChildStep
    \/ ChildFinish
    \/ TaskReturn
    \/ Commit

SpecDelegate == InitDelegate /\ [][NextDelegate]_vars

SpecRegistry == InitRegistry /\ [][NextDelegate]_vars

----------------------------------------------------------------------------
(* The file store: operations on one store, virtual or real.  A tool call   *)
(* of the virtual store is taken together with the commit of the update it  *)
(* returns.                                                                 *)

\* Number of operations on the store in a run.
MaxOps == 2

StorePaths == { <<"s">>, <<"s", "/", "a">>, <<"t">> }

Contents ==
    { <<>>, <<" ">>, <<"a", "\n">>, <<"a", "X", "a", "X", "a">>, <<"a", "a", "a">>,
      <<"a", "\n", "b", "\n", "c">> }

OldStrings == { <<>>, <<"a">>, <<"a", "a">>, <<"X">> }

\* The stores a run starts with, with the order of their keys.
StoreInits ==
    { [files |-> EmptyFiles, order |-> <<>>],
      [files |-> [p \in {<<"t">>, <<"s", "/", "a">>} |->
                     IF p = <<"t">> THEN <<"a", "X", "a", "X", "a">> ELSE <<"a">>],
       order |-> << <<"t">>, <<"s", "/", "a">> >>] }

\* The session state a tool of the virtual store is handed.
Session == State(store, <<>>, <<>>, {})

\* The files after the commit of the update of a tool call, and the text
\* of its result.
Committed(r) ==
    Done(ApplyUpdate(Session, r.update, StateSchema).files, r.update.messages[1].content)

OthersIdle ==
    /\ world = [catalogue |-> {}, batch |-> 0]
    /\ hookKind = "none"
    /\ Start
    /\ DelegationIdle

InitStore ==
    /\ OthersIdle
    /\ backend \in {"virtual", "real"}
    /\ \E init \in StoreInits :
          /\ store = init.files
          /\ inserted = IF backend = "virtual" THEN init.order ELSE <<>>
    /\ last = NoOp
    /\ ops = 0

Write ==
    /\ backend \in {"virtual", "real"}
    /\ ops < MaxOps
    /\ ops' = ops + 1
    /\ \E file_path \in StorePaths, content \in Contents :
          LET r == IF backend = "virtual"
                   THEN Committed(write_file(Session, file_path, content, 0))
                   ELSE real_write_file(store, file_path, content)
          IN  /\ store' = r.disk
              /\ inserted' = IF backend = "virtual" THEN dict_set(inserted, file_path)
                             ELSE inserted
              /\ last' = Op("write", [file_path |-> file_path, content |-> content],
                            store, r.result)
    /\ UNCHANGED <<backend, ovars>>

Edit ==
    /\ backend \in {"virtual", "real"}
    /\ ops < MaxOps
    /\ ops' = ops + 1
    /\ \E file_path \in StorePaths, old_string \in OldStrings, replace_all \in BOOLEAN :
          LET new_string == <<"b">>
              r == IF backend = "virtual"
                   THEN Committed(edit_file(Session, file_path, old_string, new_string,
                                            replace_all, 0))
                   ELSE real_edit_file(store, file_path, old_string, new_string,
                                       replace_all)
          IN  /\ store' = r.disk
              /\ last' = Op("edit", [file_path |-> file_path, old_string |-> old_string,
                                     new_string |-> new_string,
                                     replace_all |-> replace_all],
                            store, r.result)
    /\ UNCHANGED <<backend, inserted, ovars>>

Read ==
    /\ backend \in {"virtual", "real"}
    /\ ops < MaxOps
    /\ ops' = ops + 1
    /\ \E file_path \in StorePaths, offset \in {0, 1}, limit \in {1, DefaultLimit} :
          last' = Op("read", [file_path |-> file_path, offset |-> offset, limit |-> limit],
                     store,
                     IF backend = "virtual"
                     THEN Committed(read_file(Session, file_path, offset, limit, 0)).result
                     ELSE real_read_file(store, file_path, offset, limit))
    /\ UNCHANGED <<backend, store, inserted, ovars>>

ListFiles ==
    /\ backend \in {"virtual", "real"}
    /\ ops < MaxOps
    /\ ops' = ops + 1
    /\ \E path \in { <<".">>, <<"s">> } :
          last' = Op("ls", [path |-> path], store,
                     IF backend = "virtual" THEN ls(inserted, store)
                     ELSE real_ls(store, path))
    /\ UNCHANGED <<backend, store, inserted, ovars>>

NextStore ==
    \/ Write
    \/ Edit
    \/ Read
    \/ ListFiles

SpecStore == InitStore /\ [][NextStore]_vars

----------------------------------------------------------------------------
(* The searches: one glob or grep on a store of up to four files, in the    *)
(* virtual store, the real store or the store of local_fs_tools.py.         *)

F1 == <<"s", "/", "a", ".", "p">>
F2 == <<"s", "/", "k", "/", "b", ".", "p">>
F3 == <<"s", "2", "/", "c", ".", "p">>
F4 == <<"t", ".", "p">>

SearchFiles ==
    [p \in {F1, F2, F3, F4} |->
        CASE p = F1 -> <<"a", "\n", "a">>
          [] p = F2 -> <<"a">>
          [] p = F3 -> <<"X">>
          [] p = F4 -> <<"a", "\n", "X">>]

GlobPatterns == { <<"*", ".", "p">>, <<"?", ".", "p">>, <<"*">>, <<"k", "/", "*">> }

GlobRoots == { <<".">>, <<"s">>, <<"s", "/">>, <<"s", "/", "k">> }

\* What a grep is pointed at: files, or a path.
GrepTargets ==
    { [files |-> <<F1, F4>>, path |-> <<>>], [files |-> <<F4>>, path |-> <<>>],
      [files |-> <<>>, path |-> <<".">>],    [files |-> <<>>, path |-> <<"s">>],
      [files |-> <<>>, path |-> <<>>] }

InitSearch ==
    /\ OthersIdle
    /\ backend \in {"virtual", "real", "local"}
    /\ \E present \in SUBSET DOMAIN SearchFiles :
          /\ store = [p \in present |-> SearchFiles[p]]
          /\ inserted \in IF backend = "virtual" THEN Orders(present) ELSE { <<>> }
    /\ last = NoOp
    /\ ops = 0

Glob ==
    /\ backend \in {"virtual", "real", "local"}
    /\ last = NoOp
    /\ ops' = ops + 1
    /\ \E pattern \in GlobPatterns, path \in GlobRoots, max_results \in {1, 2, 9},
          include_dirs \in BOOLEAN, recursive \in BOOLEAN :
          \E r \in IF backend = "virtual"
                   THEN glob(pattern, path, max_results, include_dirs, recursive,
                             inserted, store)
                   ELSE real_glob(pattern, path, max_results, include_dirs, recursive,
                                  store) :
              last' = Op("glob", [pattern |-> pattern, path |-> path,
                                  max_results |-> max_results,
                                  include_dirs |-> include_dirs,
                                  recursive |-> recursive],
                         store, r)
    /\ UNCHANGED <<backend, store, inserted, ovars>>

Grep ==
    /\ backend \in {"virtual", "real", "local"}
    /\ last = NoOp
    /\ ops' = ops + 1
    /\ \E pattern \in { <<"a">>, <<"x">> }, target \in GrepTargets,
          file_pattern \in { <<"*">>, <<"b", "*">> }, max_results \in {1, 2, 3},
          case_sensitive \in BOOLEAN, recursive \in BOOLEAN :
          /\ target.files # <<>> => file_pattern = <<"*">>
          /\ backend = "local" => recursive
          /\ \E r \in CASE backend = "virtual" ->
                           { grep(pattern, target.files, target.path, file_pattern,
                                  max_results, case_sensitive, recursive, inserted,
                                  store) }
                        [] backend = "real" ->
                           real_grep(pattern, target.files, target.path, file_pattern,
                                     max_results, case_sensitive, recursive, store)
                        [] backend = "local" ->
                           { local_grep(pattern, target.files, target.path,
                                        file_pattern, max_results, case_sensitive,
                                        store) } :
                last' = Op("grep", [pattern |-> pattern, files |-> target.files,
                                    path |-> target.path,
                                    file_pattern |-> file_pattern,
                                    max_results |-> max_results,
                                    case_sensitive |-> case_sensitive,
                                    recursive |-> recursive],
                           store, r)
    /\ UNCHANGED <<backend, store, inserted, ovars>>

NextSearch ==
    \/ Glob
    \/ Grep

SpecSearch == InitSearch /\ [][NextSearch]_vars

----------------------------------------------------------------------------
(* Properties of the approval gate.                                         *)

\* The approval key of a tool call.
KeyOf(c) == get_approval_key(c.name, c.args)

\* The operation kinds the specification calls read-only.
ReadOnlyKinds == {"read_file", "ls", "glob", "grep"}

\* Entry n of the gate's trace was decided by a resume value that means v.
Decided(n, Means(_)) == gate[n].j > 0 /\ Means(resumes[gate[n].j])

\* The hook has returned and the revised batch goes to the tool node.
Gated == hookKind = "cache" /\ pc = "tools"

\* C1: every gated action that remains in the revised batch has an approval
\* key for which the human gave an accept decision, earlier in the run or
\* for this proposal.
C1_GatedProceedsOnlyOnAcceptedKey ==
    Gated => \A i \in 1..Len(tool_calls) :
                 tool_calls[i].name \in write_tools => KeyOf(tool_calls[i]) \in accepted

\* C2: once the human has accepted a proposal with key k, no later proposal
\* with key k prompts: none is pending on an accepted key, a later action of
\* the same batch with that key is a cache hit, and two identical requests
\* of which the first is accepted cause exactly one prompt.
C2_AcceptedKeyNeverPromptsAgain ==
    hookKind = "cache" =>
        /\ pc \in {"suspended", "cancelled"} => prompt.approval_key \notin accepted
        /\ \A m, n \in 1..Len(gate) :
              (m < n /\ gate[m].key = gate[n].key /\ Decided(m, IsAccept))
                  => gate[n].event = "hit"
        /\ \A m \in 1..Len(gate) :
              (Decided(m, IsAccept) /\ \A l \in 1..(m - 1) : gate[l].key # gate[m].key)
                  => Cardinality({i \in 1..Len(prompts) :
                                     prompts[i].approval_key = gate[m].key}) = 1

\* Two identical write requests into one directory, the first accepted:
\* one prompt, both proceed.
C2_Witness ==
    /\ Gated
    /\ Len(proposed) = 2
    /\ proposed[1].name = "write_file"
    /\ proposed[2].name = "write_file"
    /\ proposed[1].args = proposed[2].args
    /\ resumes = <<Bool(TRUE)>>
    /\ Len(prompts) = 1
    /\ Len(tool_calls) = 2

\* C3: a resume value that means reject, False or a response of type reject,
\* drops the action it answers, adds no key, and does not abort the step.
C3_RejectionDropsAndContinues ==
    /\ (resumes # <<>> /\ IsReject(resumes[Len(resumes)])) => pc # "error"
    /\ \A n \in 1..Len(gate) :
          Decided(n, IsReject) =>
              /\ gate[n].event = "reject"
              /\ gate[n].key \in live.cached_approvals => gate[n].key \in cache0
              /\ pc = "tools" => \A i \in 1..Len(tool_calls) : tool_calls[i].id # gate[n].id

\* C4: the revised batch is exactly the proposed actions that were not
\* rejected, each once, in its original form.
C4_RevisedIsApprovedSubset ==
    Gated => tool_calls =
                 SelectSeq(proposed,
                           LAMBDA c : \A n \in 1..Len(gate) :
                                         gate[n].id = c.id => ~Decided(n, IsReject))

\* C5: no step of the gate removes a key from the approval cache.
C5_CacheOnlyGrows ==
    [][approved_operations \subseteq approved_operations']_vars

\* A second step that rejected a proposal while the cache held a key.
C5_Witness ==
    /\ Gated
    /\ step = 2
    /\ cache0 # {}
    /\ \E n \in 1..Len(gate) : gate[n].event = "reject"
    /\ \E n \in 1..Len(gate) : gate[n].event = "accept"
    /\ cache0 \subseteq approved_operations
    /\ approved_operations # cache0

\* C6: the number of prompts of a batch is the number of distinct approval
\* keys of its gated actions that were not cached when the batch was proposed.
C6_OnePromptPerDistinctUncachedKey ==
    Gated => Len(prompts) =
                 Cardinality({KeyOf(proposed[i]) :
                                 i \in {n \in 1..Len(proposed) :
                                           proposed[n].name \in write_tools}} \ cache0)

Ungated(name) ==
    \/ hookKind = "cache" /\ name = "read_file"
    \/ hookKind = "config" /\ name \notin tool_configs

C8_SuspensionLeavesBatchUnmutated ==
    /\ [](pc \in {"suspended", "cancelled"} =>
              /\ tool_calls = proposed
              /\ live.tool_calls = proposed
              /\ executed = <<>>
              /\ answered = {})
    /\ [][pc = "cancelled" =>
              /\ pc' = "suspended"
              /\ prompt' = prompt
              /\ tool_calls' = proposed]_vars

\* The wait for the second decision of a batch is cancelled, after the first
\* action of the batch was accepted.
C8_Witness ==
    /\ pc = "cancelled"
    /\ hookKind = "cache"
    /\ Len(proposed) = 2
    /\ resumes = <<Bool(TRUE)>>
    /\ live.cached_approvals # approved_operations

C10_RevisedKeepsProposalOrder ==
    pc = "tools" =>
        \A i, j \in 1..Len(tool_calls) : i < j => tool_calls[i].id < tool_calls[j].id

\* The value of the resume means "edit": a response of type edit.
IsEdit(v) ==
    v.form \in {"record", "list"} /\ Len(v.items) = 1 /\ v.items[1].type = "edit"

\* C11: on an edit decision the gated action proceeds with the arguments the
\* human supplied and the call id it was proposed with, every other action
\* of the revised batch is as it was proposed, and the step adds no approval
\* key for the edited form to the cache.
C11_EditReplacesArguments ==
    pc = "tools" =>
        \A n \in 1..Len(gate) :
            Decided(n, IsEdit) =>
                LET edited == resumes[gate[n].j].items[1].args
                IN  /\ \E i \in 1..Len(tool_calls) :
                          /\ tool_calls[i].id = gate[n].id
                          /\ tool_calls[i].args = edited.args
                    /\ \A i \in 1..Len(tool_calls) :
                          tool_calls[i].id # gate[n].id
                              => tool_calls[i] = proposed[tool_calls[i].id]
                    /\ get_approval_key(edited.action, edited.args)
                          \notin approved_operations \ cache0

----------------------------------------------------------------------------
(* Properties of the delegation engine.                                     *)

\* The content of path p in the store fs, as a sequence of at most one
\* content: empty when the store does not hold p.
Lookup(fs, p) == IF p \in DOMAIN fs THEN <<fs[p]>> ELSE <<>>

\* The paths of the scenarios.
Paths == {"p", "q"}

\* Both calls of the step were task calls whose children ran and merged.
BothMerged ==
    /\ phase = "done"
    /\ Len(stepCalls) = 2
    /\ \A i \in 1..2 : child[i].phase = "merged"

\* C12: two delegate calls of one step, after both merges: when the two
\* children wrote different paths the parent store holds every write of
\* both, and a path both wrote holds the full content one of them wrote.
C12_ConcurrentDelegatesBothMerge ==
    BothMerged =>
        /\ DOMAIN child[1].wrote \cap DOMAIN child[2].wrote = {}
              => \A i \in 1..2 : \A p \in DOMAIN child[i].wrote :
                     Lookup(files, p) = <<child[i].wrote[p]>>
        /\ \A p \in DOMAIN child[1].wrote \cap DOMAIN child[2].wrote :
              Lookup(files, p) \in {<<child[1].wrote[p]>>, <<child[2].wrote[p]>>}

\* The step that merges the result of child i into the parent.
Merges(i) ==
    /\ i \in 1..Len(stepCalls)
    /\ child[i].phase = "done"
    /\ child'[i].phase = "merged"

\* C13: a merge writes back only the paths the child wrote or edited: the
\* parent's content at every other path, a sibling's merged write included,
\* is after the merge what it was right before it.
C13_MergeWritesOnlyMutatedPaths ==
    [][\A i \in 1..2 :
          Merges(i) => \A p \in Paths \ DOMAIN child[i].wrote :
                           Lookup(files', p) = Lookup(files, p)]_vars

\* C14: every child session starts with one user message, the description
\* of its task call, and with the files and the todos the parent had when
\* the call was proposed, whatever ran before it.
C14_ChildStartsFromSnapshot ==
    \A i \in 1..Len(stepCalls) :
        child[i].phase # "none" =>
            /\ child[i].start.messages = <<UserMessage(stepCalls[i].description)>>
            /\ child[i].start.files = begin.files
            /\ child[i].start.todos = begin.todos

\* The content of the last message of child i.
FinalMessage(i) == child[i].state.messages[Len(child[i].state.messages)].content

\* C15: a completed delegate call leaves the parent's todos and earlier
\* messages as they were and appends one result message, whose content is
\* the last message of the child, whatever todos and messages the child
\* produced.
C15_DelegateAddsOneResultMessage ==
    [][\A i \in 1..2 :
          Merges(i) => /\ todos' = todos
                       /\ messages' = Append(messages, ToolMessage(FinalMessage(i), i))]_vars

\* A child that wrote its own todos and ran a tool has been merged.
C15_Witness ==
    \E i \in 1..Len(stepCalls) :
        /\ child[i].phase = "merged"
        /\ child[i].state.todos # todos
        /\ Len(child[i].state.messages) > 3

\* C16: while the calls of a step run, the state map each of them was
\* handed still has the files and the messages the step began with: no
\* tool modifies the state it was handed.
C16_InjectedStateUntouched ==
    phase = "running" =>
        \A i \in 1..Len(stepCalls) :
            /\ injected[i].files = begin.files
            /\ injected[i].messages = begin.messages

Listed(spec) == { spec.tools[k] : k \in 1..Len(spec.tools) }

\* C18: every operation that has executed in a child session whose spec
\* has a tools list is named in that list.
C18_ChildRunsOnlyListedTools ==
    \A i \in 1..Len(stepCalls) :
        (child[i].phase # "none" /\ agents[child[i].type].spec.has_tools)
            => child[i].ran \subseteq Listed(agents[child[i].type].spec)

\* A child restricted to read_file was asked to write a file and has read
\* one.
C18_Witness ==
    \E i \in 1..Len(stepCalls) :
        /\ child[i].phase # "none"
        /\ agents[child[i].type].spec = Reader
        /\ "read_file" \in child[i].ran
        /\ \E n \in 1..Len(child[i].state.messages) :
              LET m == child[i].state.messages[n]
              IN  m.role = "ai" /\ m.tool_calls # <<>> /\ m.tool_calls[1].name = "write_file"

\* Spec number k of the setup names a tool that is not registered.
Unresolvable(k) ==
    /\ setup.subagents[k].has_tools
    /\ ~(Listed(setup.subagents[k]) \subseteq setup.tools)

\* C19: once the registry is built, a spec with an unresolvable tool name
\* has made the build fail, no agent of the registry holds a name that is
\* not a registered operation, and every spec is in the registry under
\* its name.
C19_RegistryResolvedAtBuild ==
    phase \notin {"off", "unbuilt"} =>
        /\ (\E k \in 1..Len(setup.subagents) : Unresolvable(k)) => phase = "build_failed"
        /\ phase # "build_failed" =>
              /\ \A n \in DOMAIN agents : agents[n].tools \subseteq setup.tools
              /\ \A k \in 1..Len(setup.subagents) :
                    /\ setup.subagents[k].name \in DOMAIN agents
                    /\ agents[setup.subagents[k].name].spec = setup.subagents[k]

\* Call i is a task call that is answered in this step, for a
\* subagent_type the registry does not hold.
AnswersUnknown(i) ==
    /\ i \in 1..Len(stepCalls)
    /\ stepCalls[i].name = "task"
    /\ stepCalls[i].subagent_type \notin DOMAIN agents
    /\ callStatus[i] = "pending"
    /\ callStatus'[i] = "returned"

\* C20: a task call for a type that is not in the registry adds its error
\* result to the parent's messages and nothing else: no child session
\* starts and files, todos and earlier messages stay; and a built registry
\* holds "general-purpose" with every registered tool.
C20_UnknownTypeIsAnErrorResult ==
    /\ [](phase \in {"idle", "running", "done"} =>
             /\ "general-purpose" \in DOMAIN agents
             /\ agents["general-purpose"].tools = setup.tools)
    /\ [][\A i \in 1..2 :
             AnswersUnknown(i) =>
                 /\ files' = files
                 /\ todos' = todos
                 /\ messages' =
                        Append(messages,
                               ToolMessage(<<"Error: invoked agent of type",
                                             stepCalls[i].subagent_type>>, i))
                 /\ child'[i].phase = "none"]_vars

----------------------------------------------------------------------------
(* Properties of the file store.                                            *)

\* The last operation was name and it reported success.
Succeeded(name) ==
    /\ last.name = name
    /\ last.result[1] \in {"Updated file", "Successfully wrote to file",
                           "Successfully replaced", "Successfully replaced string"}

\* A text as read shows it: each of its lines behind its line number, cut
\* after MaxLineLength characters.
Numbered(content) ==
    LET lines == splitlines(content)
    IN  join([i \in 1..Len(lines) |->
                 <<LineNumber(i), "\t">>
                 \o SubSeq(lines[i], 1, Min(Len(lines[i]), MaxLineLength))], "\n")

\* A read of a file of the store, with the default offset and limit.
DefaultRead ==
    /\ last.name = "read"
    /\ last.args.offset = 0
    /\ last.args.limit = DefaultLimit
    /\ last.args.file_path \in DOMAIN store

\* C21: after write(path, content) the store holds content at path and what
\* it held before at every other path, and a read of a file with the
\* default offset and limit returns the content of the file, each line
\* behind its line number and cut at the maximal line length.
C21_WriteThenReadReturnsContent ==
    /\ Succeeded("write") =>
          /\ Lookup(store, last.args.file_path) = <<last.args.content>>
          /\ \A p \in (DOMAIN store \cup DOMAIN last.before) \ {last.args.file_path} :
                Lookup(store, p) = Lookup(last.before, p)
    /\ DefaultRead => last.result = Numbered(store[last.args.file_path])

\* The positions of content at which old occurs.
Positions(content, old) ==
    { k \in 1..(Len(content) - Len(old) + 1) :
        SubSeq(content, k, k + Len(old) - 1) = old }

\* C22: an edit fails, and leaves every path of the store as it was, when
\* the path is missing, when old does not occur in the content, or when
\* replace_all is false and old occurs more than once; every failing edit
\* leaves the store as it was; and an edit without replace_all succeeds only
\* when old occurs exactly once.
C22_FailingEditLeavesStore ==
    last.name = "edit" =>
        LET file_path == last.args.file_path
            missing   == file_path \notin DOMAIN last.before
            n         == IF missing THEN 0
                         ELSE Cardinality(Positions(last.before[file_path],
                                                    last.args.old_string))
        IN  /\ (missing \/ n = 0 \/ (~last.args.replace_all /\ n > 1)) =>
                   ~Succeeded("edit")
            /\ ~Succeeded("edit") => store = last.before
            /\ (Succeeded("edit") /\ ~last.args.replace_all) => n = 1

\* The occurrences of old that a scan from the left finds when it goes on
\* behind each occurrence it found: the starts of the occurrences that do
\* not overlap an earlier one, from position from on.
RECURSIVE Leftmost(_, _, _)
Leftmost(content, old, from) ==
    LET later == { k \in Positions(content, old) : k >= from }
    IN  IF later = {} THEN {}
        ELSE LET k == CHOOSE m \in later : \A o \in later : m <= o
             IN  {k} \cup Leftmost(content, old, k + (IF old = <<>> THEN 1 ELSE Len(old)))

\* The content with new in the place of the occurrences that start at
\* starts, written from position i on.
RECURSIVE Rewritten(_, _, _, _, _)
Rewritten(content, starts, width, new, i) ==
    IF i > Len(content) + 1 THEN <<>>
    ELSE (IF i \in starts THEN new ELSE <<>>)
         \o (IF i <= Len(content) /\ ~\E k \in starts : k <= i /\ i < k + width
             THEN <<content[i]>> ELSE <<>>)
         \o Rewritten(content, starts, width, new, i + 1)

\* The last operation was a successful edit with replace_all.
ReplacedAll == Succeeded("edit") /\ last.args.replace_all

\* The content the last edit found at its path.
Edited == last.before[last.args.file_path]

\* C23 as stated: an edit with replace_all reports as its count the number
\* of occurrences of old in the content, leaves new in the place of every
\* occurrence, and leaves every other path as it was.
C23_ReplaceAllCountsOccurrences ==
    ReplacedAll =>
        LET occ == Positions(Edited, last.args.old_string)
        IN  /\ last.result = <<"Successfully replaced", Numeral(Cardinality(occ)),
                               "instance(s)">>
            /\ \A p \in DOMAIN last.before \ {last.args.file_path} :
                  Lookup(store, p) = Lookup(last.before, p)
            /\ DOMAIN store = DOMAIN last.before

\* C23, amended: an edit with replace_all reports as its count the number
\* of the occurrences of old that do not overlap an earlier one, the content
\* afterwards has new in the place of each of them, and every other path is
\* as it was.
C23_ReplaceAllCountsLeftmost ==
    ReplacedAll =>
        LET occ == Leftmost(Edited, last.args.old_string, 1)
        IN  /\ last.result = <<"Successfully replaced", Numeral(Cardinality(occ)),
                               "instance(s)">>
            /\ store[last.args.file_path] =
                   Rewritten(Edited, occ, Len(last.args.old_string),
                             last.args.new_string, 1)
            /\ \A p \in DOMAIN last.before \ {last.args.file_path} :
                  Lookup(store, p) = Lookup(last.before, p)
            /\ DOMAIN store = DOMAIN last.before

\* The example of the specification: "a" replaced by "b" in "aXaXa".
C23_Witness ==
    /\ ReplacedAll
    /\ Edited = <<"a", "X", "a", "X", "a">>
    /\ last.args.old_string = <<"a">>
    /\ store[last.args.file_path] = <<"b", "X", "b", "X", "b">>
    /\ last.result[2] = "3"

\* C24: the sequence that list returns is in ascending order and holds
\* each name once, in both stores and whatever the order of the writes.
C24_ListIsSorted ==
    last.name = "ls" =>
        \A i, j \in 1..Len(last.result) :
            i < j => /\ last.result[i] # last.result[j]
                     /\ str_le(last.result[i], last.result[j])

\* The last operation was an edit with an empty old_string of a path at
\* which the store had nothing, and under no file.
CreatingEdit ==
    /\ last.name = "edit"
    /\ last.args.old_string = <<>>
    /\ ~exists(last.before, PathParts(last.args.file_path))
    /\ \A n \in 1..(Len(PathParts(last.args.file_path)) - 1) :
          ~is_file(last.before, SubSeq(PathParts(last.args.file_path), 1, n))

\* C28: an edit with an empty old_string of a path that does not exist yet
\* creates the file with new_string as its content.
C28_EditCreatesMissingFile ==
    CreatingEdit => Lookup(store, last.args.file_path) = <<last.args.new_string>>

----------------------------------------------------------------------------
(* Properties of the searches.                                              *)

\* The last operation was a glob that returned paths.
Globbed == last.name = "glob" /\ last.result.status = "found"

\* The components of the k-th path a glob returned (a directory is returned
\* with a trailing separator), and those of its root.
Returned(k) == PathParts(rstrip(last.result.results[k]))
GlobRoot == PathParts(last.args.path)

\* C25: every path a glob returns lies inside the directory root, and is a
\* direct child of root when the search is not recursive.
C25_GlobStaysUnderRoot ==
    Globbed =>
        \A k \in 1..Len(last.result.results) :
            /\ IsPrefix(GlobRoot, Returned(k))
            /\ Len(Returned(k)) > Len(GlobRoot)
            /\ ~last.args.recursive => Len(Returned(k)) = Len(GlobRoot) + 1

\* The last operation was a glob that searched: it returned paths or found
\* none.
Searched == last.name = "glob" /\ last.result.status \in {"found", "none"}

\* The last component of a path.
Leaf(parts) == parts[Len(parts)]

\* The files of the store that lie inside the root of the glob.
UnderRoot ==
    { f \in DOMAIN last.before :
        IsPrefix(GlobRoot, PathParts(f)) /\ Len(PathParts(f)) > Len(GlobRoot) }

\* The files under the root whose leaf name matches the pattern.
LeafMatches == { f \in UnderRoot : fnmatch(Leaf(PathParts(f)), last.args.pattern) }

\* What the pattern matches under the root: the files and, with
\* include_dirs, the directories whose path relative to the root or whose
\* leaf name matches.
AllMatches ==
    LET entries == IF last.args.include_dirs THEN Below(last.before, GlobRoot)
                   ELSE { SubSeq(PathParts(f), Len(GlobRoot) + 1, Len(PathParts(f))) :
                            f \in UnderRoot }
    IN  { e \in entries : \/ fnmatch(join(e, "/"), last.args.pattern)
                          \/ fnmatch(Leaf(e), last.args.pattern) }

\* C26: a recursive glob returns every file under the root whose leaf name
\* matches the pattern, at whatever depth the file lies, when the matches
\* are no more than max_results.
C26_GlobFallsBackToLeafName ==
    (Searched /\ last.args.recursive /\ Cardinality(AllMatches) <= last.args.max_results)
        => LeafMatches \subseteq Range(last.result.results)

\* C27: the match lines a grep reports over all the files it searched are
\* no more than max_results.
C27_GrepCapsTotalMatches ==
    (last.name = "grep" /\ last.result.status = "found")
        => Len(last.result.results) <= last.args.max_results

----------------------------------------------------------------------------
(* Properties of the hooks under suspension and resumption.                 *)

\* The entries of the gate's trace that were decided by a resume value.
DecidedEntries == { n \in 1..Len(gate) : gate[n].j > 0 }

\* C29: every action the caching gate decided by a resume value is the
\* action whose prompt elicited that value: the prompt surfaced its kind,
\* its arguments and its key, the value decided no other action, the action
\* is approved or dropped as that value says, and the cache has grown by
\* the keys of the actions accepted in this way only.
C29_DecisionGoesToItsPrompt ==
    hookKind = "cache" =>
        /\ \A n \in DecidedEntries :
              LET e == gate[n] IN
              /\ e.j <= Len(prompts) /\ e.j <= Len(resumes)
              /\ prompts[e.j] = [command |-> e.name, args |-> proposed[e.id].args,
                                 approval_key |-> e.key]
              /\ e.event = IF Truthy(resumes[e.j]) THEN "accept" ELSE "reject"
              /\ \A m \in DecidedEntries : gate[m].j = e.j => m = n
        /\ live.cached_approvals =
               cache0 \cup { gate[n].key : n \in { m \in DecidedEntries :
                                                     gate[m].event = "accept" } }

\* A batch of two gated actions with different keys was suspended twice;
\* the first decision was a rejection, the second an acceptance.
C29_Witness ==
    /\ hookKind = "cache"
    /\ pc = "tools"
    /\ Len(resumes) = 2
    /\ ~Truthy(resumes[1]) /\ Truthy(resumes[2])
    /\ Len(gate) = 2
    /\ gate[1].j = 1 /\ gate[2].j = 2
    /\ gate[1].key # gate[2].key
    /\ gate[1].event = "reject" /\ gate[2].event = "accept"

\* The calls of the proposed batch that the configured hook gates.
GatedCalls == SelectSeq(proposed, LAMBDA c : c.name \in tool_configs)

\* A resume value the configured hook takes: a list of one response of a
\* type it knows.
OneResponse(v) ==
    /\ v.form = "list"
    /\ Len(v.items) = 1
    /\ v.items[1].type \in {"accept", "edit", "response"}

\* C30: on a batch with more than one gated action the configured hook
\* raises its error with no prompt made and the batch as it was proposed; on
\* a batch with exactly one gated action it makes one prompt, for that
\* action, takes one resume value, and raises an error unless that value is
\* a list of exactly one response.
C30_OneGatedActionPerBatch ==
    hookKind = "config" =>
        /\ Len(GatedCalls) > 1 =>
              /\ pc \in {"hook", "error"}
              /\ prompts = <<>> /\ resumes = <<>> /\ prompt = NoPrompt
              /\ tool_calls = proposed /\ live.tool_calls = proposed
        /\ Len(GatedCalls) = 1 =>
              /\ Len(resumes) <= 1
              /\ pc # "hook" => /\ Len(prompts) = 1
                                /\ prompts[1].command = GatedCalls[1].name
                                /\ prompts[1].args = GatedCalls[1].args
              /\ Len(resumes) = 1 => (pc = "error" <=> ~OneResponse(resumes[1]))
        /\ Len(GatedCalls) = 0 => prompts = <<>> /\ pc # "error"

\* The hook has raised its error on a batch of two gated actions, and no
\* prompt was made.
C30_Witness ==
    /\ hookKind = "config"
    /\ pc = "error"
    /\ Len(GatedCalls) = 2
    /\ prompts = <<>>

====
